---- MODULE Spec2Model ----
(***************************************************************************)
(* Model of the Luos/Robus message allocator (Robus/src/msg_alloc.c).      *)
(*                                                                         *)
(* Two execution contexts are modelled.  The interrupt context runs one    *)
(* reception handler (SetData, ValidHeader, EndMsg, InvalidMsg) to         *)
(* completion whenever interrupts are enabled.  The main context executes  *)
(* the other functions statement by statement; consecutive statements that *)
(* run while interrupts are masked are taken in one step, since nothing    *)
(* can observe the states in between.                                      *)
(*                                                                         *)
(* Addresses are integers: NULL is 0 and msg_buffer occupies               *)
(* BufStart .. BufLast.  Every C function is an operator F(t, g, o) that   *)
(* executes the statement at t.pc of a context t on the globals g and      *)
(* yields the next context and globals; o resolves the reads whose result  *)
(* the C standard leaves open.                                             *)
(***************************************************************************)
EXTENDS Integers, Sequences, FiniteSets, TLC

\* ---------------------------------------------------------------- sizes
MSG_BUFFER_SIZE == 13
MAX_MSG_NB == 3
MAX_DATA_MSG_SIZE == 2
HEADER_SIZE == 2
CRC_SIZE == 2
NULL == 0
BufStart == 1
U16 == 65536
U8 == 256
DROP_MAX == 255

BufEnd == BufStart + MSG_BUFFER_SIZE
BufLast == BufEnd - 1
Addr == BufStart .. BufLast
Slots == 0 .. (MAX_MSG_NB - 1)
\* a non-null address outside msg_buffer
Wild == BufEnd + 1

\* ------------------------------------------------------- model bounds
\* byte values a received frame may carry, and the values of staged frames
RxByteMax == 2
OneByte == 1
TxByte == 3
LocalByte == 4
Containers == {1, 2}
\* what a read past the end of a task array may yield
OobVals == {NULL, Wild}
Oracles == [oob : OobVals, fwd : BOOLEAN]

\* ------------------------------------------------------------ helpers
Min(a, b) == IF a < b THEN a ELSE b

R(t, g) == [t |-> t, g |-> g]
Goto(t, l) == [t EXCEPT !.pc = l]
Call(t, f, back) == [t EXCEPT !.pc = f, !.stk = <<back>> \o @]
Return(t) ==
    IF t.stk = <<>> THEN [t EXCEPT !.pc = "done"]
    ELSE [t EXCEPT !.pc = Head(t.stk), !.stk = Tail(@)]

\* LUOS_ASSERT(cond): a failed assertion halts the node
AssertFail(t, g) == R(t, [g EXCEPT !.halted = "assert"])
\* an access outside the object it addresses: nothing is known afterwards
Fault(t, g) == R(t, [g EXCEPT !.halted = "fault"])

InBuffer(p) == p >= BufStart /\ p < BufEnd

\* the range test of ClearMsgSpace and ValidHeader: from <= p <= to
InRange(p, from, to) == p >= from /\ p <= to

\* MsgAlloc_DoWeHaveSpace: SUCCEED (TRUE) unless `to` is past the last byte
DoWeHaveSpace(to) == to <= BufLast

DropInc_mut(g) == g
DropInc_wrap(g) == [g EXCEPT !.mem_stat.msg_drop_number = (@ + 1) % U8]
\* if (mem_stat->msg_drop_number < 0xFF) mem_stat->msg_drop_number++;
\* (sated: a drop was counted while the counter was at 0xFF)
DropInc(g) ==
    [g EXCEPT !.mem_stat.msg_drop_number = IF @ < DROP_MAX THEN @ + 1 ELSE @,
              !.sated = @ \/ g.mem_stat.msg_drop_number = DROP_MAX]

Ratio_mut(id) == 0
\* (uint8_t)(((uint32_t)stack_id * 100) / (MAX_MSG_NB))
Ratio(id) == ((id * 100) \div MAX_MSG_NB) % U8

\* --------------------------------------------------- buffer accesses
\* frames (by start address) that hold address a and are not `own`
FramesAt(g, a, own) ==
    {p \in Addr : p # own /\ g.frame_end[p] # 0 /\ p <= a /\ a < g.frame_end[p]}

RECURSIVE StoreBytes(_, _, _, _)
StoreBytes(g, dst, bytes, own) ==
    IF bytes = <<>> THEN g
    ELSE StoreBytes([g EXCEPT !.msg_buffer[dst] = Head(bytes),
                              !.dirty = @ \cup FramesAt(g, dst, own)],
                    dst + 1, Tail(bytes), own)

\* n bytes starting at src, read from msg_buffer
LoadBytes(g, src, n) == [k \in 1 .. n |-> g.msg_buffer[src + k - 1]]

RangeInBuffer(a, n) == n = 0 \/ (InBuffer(a) /\ InBuffer(a + n - 1))

\* ------------------------------------------------------- task stacks
\* msg_tasks[i], where a read past the array yields what o says
MsgTaskAt(g, i, o) == IF i \in Slots THEN g.msg_tasks[i] ELSE o.oob
NoLuosTask == [msg_pt |-> NULL, ll_container_pt |-> NULL]
LuosTaskAt_none(g, i, o) == NoLuosTask
LuosTaskAt_head(g, i, o) == g.luos_tasks[0]
LuosTaskAt_last(g, i, o) == g.luos_tasks[MAX_MSG_NB - 1]
\* luos_tasks[i], where a read past the array yields what o says
LuosTaskAt(g, i, o) ==
    IF i \in Slots THEN g.luos_tasks[i]
    ELSE [msg_pt |-> o.oob, ll_container_pt |-> o.oob]
NoTxTask == [data_pt |-> NULL, size |-> 0]

ValidMsgTasks(g) == {i \in Slots : i < g.msg_tasks_stack_id}
ValidLuosTasks(g) == {i \in Slots : i < g.luos_tasks_stack_id}
ValidTxTasks(g) == {i \in Slots : i < g.tx_tasks_stack_id}

\* the push that made the entry in slot i (tags: 0 for none), which the
\* assignments that move the entry move with it
TagAt(tags, i) == IF i \in Slots THEN tags[i] ELSE 0
\* the slots from n on are beyond the stack: they hold no entry
Unused(marks, n, none) == [i \in Slots |-> IF i >= n /\ n >= 0 THEN none ELSE marks[i]]

\* a statement that shifts a stack entry left, noting whether interrupts
\* were masked when it ran
Shifted(g) == [g EXCEPT !.shift_unmasked = @ \/ g.irq]

SlideFrom_mut(rm) == rm
\* msg_tasks[rm] = msg_tasks[rm + 1]: the slot the slide copies into slot rm
SlideFrom(rm) == rm + 1

\* static inline void MsgAlloc_ClearMsgTask(void)
ClearMsgTask(t, g, o) ==
    CASE t.pc = "CMT_assert" ->
            IF g.msg_tasks_stack_id <= MAX_MSG_NB /\ g.msg_tasks_stack_id > 0
            THEN R([t EXCEPT !.pc = "CMT_test", !.rm = 0], g)
            ELSE AssertFail(t, g)
      [] t.pc = "CMT_test" ->
            IF t.rm < g.msg_tasks_stack_id
            THEN R(Goto(t, "CMT_on"), g)
            ELSE R(Goto(t, "CMT_dec"), g)
      [] t.pc = "CMT_on" -> R(Goto(t, "CMT_off"), [g EXCEPT !.irq = TRUE])
      [] t.pc = "CMT_off" -> R(Goto(t, "CMT_move"), [g EXCEPT !.irq = FALSE])
      [] t.pc = "CMT_move" ->
            IF t.rm \notin Slots THEN Fault(t, g)
            ELSE R([t EXCEPT !.pc = "CMT_test", !.rm = @ + 1],
                   Shifted([g EXCEPT !.msg_tasks[t.rm] = MsgTaskAt(g, SlideFrom(t.rm), o),
                                     !.mtag[t.rm] = TagAt(g.mtag, SlideFrom(t.rm)),
                                     !.mpulled[t.rm] = SlideFrom(t.rm) \in Slots
                                                       /\ g.mpulled[SlideFrom(t.rm)],
                                     !.first = IF t.rm = 0 THEN NULL ELSE @,
                                     !.oob_index = @ \/ (SlideFrom(t.rm) \notin Slots)]))
      [] t.pc = "CMT_dec" ->
            R(Goto(t, "CMT_zero"),
              [g EXCEPT !.msg_tasks_stack_id = (@ + U16 - 1) % U16])
      [] t.pc = "CMT_zero" ->
            IF g.msg_tasks_stack_id \notin Slots
            THEN Fault(t, [g EXCEPT !.oob_index = TRUE])
            ELSE R(Goto(t, "CMT_irq"),
                   [g EXCEPT !.msg_tasks[g.msg_tasks_stack_id] = NULL,
                             !.mtag[g.msg_tasks_stack_id] = 0,
                             !.mpulled[g.msg_tasks_stack_id] = FALSE])
      [] t.pc = "CMT_irq" ->
            R(Return([t EXCEPT !.rm = 0]), [g EXCEPT !.irq = TRUE])

\* static inline void MsgAlloc_ClearLuosTask(uint16_t luos_task_id)
ClearLuosTask(t, g, o) ==
    CASE t.pc = "CLT_assert" ->
            IF t.lid <= g.luos_tasks_stack_id \/ g.luos_tasks_stack_id <= MAX_MSG_NB
            THEN R([t EXCEPT !.pc = "CLT_test", !.lrm = t.lid], g)
            ELSE AssertFail(t, g)
      [] t.pc = "CLT_test" ->
            IF t.lrm < g.luos_tasks_stack_id
            THEN R(Goto(t, "CLT_move"), g)
            ELSE R(Goto(t, "CLT_off"), g)
      [] t.pc = "CLT_move" ->
            IF t.lrm \notin Slots THEN Fault(t, g)
            ELSE R([t EXCEPT !.pc = "CLT_test", !.lrm = @ + 1],
                   Shifted([g EXCEPT !.luos_tasks[t.lrm] = LuosTaskAt(g, t.lrm + 1, o),
                                     !.lpulled[t.lrm] = t.lrm + 1 \in Slots
                                                        /\ g.lpulled[t.lrm + 1],
                                     !.oob_index = @ \/ (t.lrm + 1 \notin Slots)]))
      [] t.pc = "CLT_off" -> R(Goto(t, "CLT_dec"), [g EXCEPT !.irq = FALSE])
      [] t.pc = "CLT_dec" ->
            R(Goto(t, "CLT_on"),
              [g EXCEPT !.luos_tasks_stack_id = IF @ # 0 THEN @ - 1 ELSE @,
                        !.lpulled = Unused(@, g.luos_tasks_stack_id - 1, FALSE)])
      [] t.pc = "CLT_on" ->
            R(Return([t EXCEPT !.lrm = 0, !.lid = 0]), [g EXCEPT !.irq = TRUE])

\* some valid MsgTasks or LuosTasks entry points into [from, to]
EntryInRange(g, from, to) ==
    \/ \E i \in ValidMsgTasks(g) : InRange(g.msg_tasks[i], from, to)
    \/ \E i \in ValidLuosTasks(g) : InRange(g.luos_tasks[i].msg_pt, from, to)

\* the head-of-stack tests of the two eviction loops
LuosHeadInRange(g, from, to) ==
    InRange(g.luos_tasks[0].msg_pt, from, to) /\ g.luos_tasks_stack_id > 0
MsgHeadInRange(g, from, to) ==
    InRange(g.msg_tasks[0], from, to) /\ g.msg_tasks_stack_id > 0

\* static inline error_return_t MsgAlloc_ClearMsgSpace(void *from, void *to)
ClearMsgSpace(t, g, o) ==
    CASE t.pc = "CMS_chk" ->
            IF t.to > BufLast
            THEN R(Return([t EXCEPT !.from = 0, !.to = 0]),
                   [g EXCEPT !.used_missed = @ \/ InRange(g.used_msg, t.from, t.to)])
            ELSE R(Goto(t, "CMS_used"), g)
      [] t.pc = "CMS_used" ->
            IF InRange(g.used_msg, t.from, t.to)
            THEN R(Goto(t, "CMS_used_drop"), [g EXCEPT !.used_msg = NULL])
            ELSE R(Goto(t, "CMS_luos"), g)
      [] t.pc = "CMS_used_drop" -> R(Goto(t, "CMS_luos"), DropInc(g))
      [] t.pc = "CMS_luos" ->
            IF LuosHeadInRange(g, t.from, t.to)
            THEN R(Call([t EXCEPT !.lid = 0], "CLT_assert", "CMS_luos_drop"),
                   [g EXCEPT !.ev_luos = TRUE, !.exp_luos = <<>>])
            ELSE R(Goto(t, "CMS_msg"), g)
      [] t.pc = "CMS_luos_drop" -> R(Goto(t, "CMS_luos"), DropInc(g))
      [] t.pc = "CMS_msg" ->
            IF MsgHeadInRange(g, t.from, t.to)
            THEN R(Call(t, "CMT_assert", "CMS_msg_drop"),
                   [g EXCEPT !.ev_msg = TRUE, !.exp_msg = <<>>])
            ELSE R(Return([t EXCEPT !.from = 0, !.to = 0]),
                   [g EXCEPT !.cms_missed = @ \/ EntryInRange(g, t.from, t.to)])
      [] t.pc = "CMS_msg_drop" -> R(Goto(t, "CMS_msg"), DropInc(g))

\* ---------------------------------------------------------- reception
\* void MsgAlloc_SetData(uint8_t data)
SetData(t, g, o) ==
    IF ~InBuffer(g.data_ptr) THEN Fault(t, g)
    ELSE R(Return(t),
           [StoreBytes(g, g.data_ptr, <<t.byte>>, NULL)
              EXCEPT !.data_ptr = g.data_ptr + 1])

\* the end of the frame that ValidHeader computes: &current_msg->data[data_size + 2]
FrameEnd(cur, data_size) == cur + HEADER_SIZE + data_size + CRC_SIZE

ValidHeader_mut(t, g, o) == R(Return(t), g)
\* void MsgAlloc_ValidHeader(uint8_t valid, uint16_t data_size)
ValidHeader(t, g, o) ==
    IF t.valid
    THEN LET wrap == ~DoWeHaveSpace(FrameEnd(g.current_msg, t.size))
             g1 == IF wrap
                   THEN [g EXCEPT !.copy_task_pointer = g.current_msg,
                                  !.current_msg = BufStart,
                                  !.data_ptr = BufStart + HEADER_SIZE,
                                  !.hdr_val = t.byte]
                   ELSE g
             g2 == [g1 EXCEPT !.data_end_estimation = FrameEnd(g1.current_msg, t.size)]
         IN  IF InRange(g2.used_msg, g2.current_msg, FrameEnd(g2.current_msg, t.size))
             THEN R(Return(t), DropInc([g2 EXCEPT !.used_msg = NULL]))
             ELSE R(Return(t), g2)
    ELSE R(Return(t), [g EXCEPT !.data_ptr = g.current_msg])

\* void MsgAlloc_InvalidMsg(void)
InvalidMsg(t, g, o) ==
    CASE t.pc = "IM_clear" ->
            R(Call([t EXCEPT !.from = g.current_msg, !.to = g.data_ptr],
                   "CMS_chk", "IM_reset"), g)
      [] t.pc = "IM_reset" ->
            R(Return(t),
              [g EXCEPT !.data_ptr = g.current_msg,
                        !.data_end_estimation = g.current_msg + HEADER_SIZE + CRC_SIZE,
                        !.copy_task_pointer =
                            IF g.current_msg = BufStart THEN NULL ELSE @,
                        !.hdr_val = IF g.current_msg = BufStart THEN 0 ELSE @])

\* the alignment step of EndMsg: if (*data_ptr % 2 != 1) data_ptr++;
AlignStep(g) ==
    IF g.msg_buffer[g.data_ptr] % 2 # 1 THEN g.data_ptr + 1 ELSE g.data_ptr

\* the expected pull order of MsgTasks after a push of p, for as long as
\* nothing was evicted from the stack
PushedMsg(g, p) ==
    IF g.ev_msg THEN g ELSE [g EXCEPT !.exp_msg = Append(@, p)]

\* void MsgAlloc_EndMsg(void)
EndMsg(t, g, o) ==
    CASE t.pc = "EM_clear" ->
            R(Call([t EXCEPT !.from = g.current_msg, !.to = g.data_ptr],
                   "CMS_chk", "EM_full"), g)
      [] t.pc = "EM_full" ->
            IF g.msg_tasks_stack_id = MAX_MSG_NB
            THEN R(Call(t, "CMT_assert", "EM_full_drop"),
                   [g EXCEPT !.ev_msg = TRUE, !.exp_msg = <<>>, !.full_push = TRUE])
            ELSE R(Goto(t, "EM_assert"), g)
      [] t.pc = "EM_full_drop" -> R(Goto(t, "EM_assert"), DropInc(g))
      [] t.pc = "EM_assert" ->
            IF /\ MsgTaskAt(g, g.msg_tasks_stack_id, o) = NULL
               /\ (~(g.msg_tasks_stack_id > 0) \/ InBuffer(g.msg_tasks[0]))
            THEN R(Goto(t, "EM_push"),
                   [g EXCEPT !.oob_index = @ \/ (g.msg_tasks_stack_id \notin Slots)])
            ELSE AssertFail(t, g)
      [] t.pc = "EM_push" ->
            IF g.msg_tasks_stack_id \notin Slots
            THEN Fault(t, [g EXCEPT !.oob_index = TRUE])
            ELSE R(Goto(t, "EM_inc"),
                   [PushedMsg(g, g.current_msg)
                      EXCEPT !.msg_tasks[g.msg_tasks_stack_id] = g.current_msg,
                             !.frame_end[g.current_msg] = g.data_ptr - CRC_SIZE,
                             !.frame_val[g.current_msg] = t.byte,
                             !.rxlog = Append(@, g.current_msg),
                             !.mtag[g.msg_tasks_stack_id] = Len(g.rxlog) + 1,
                             !.mpulled[g.msg_tasks_stack_id] = FALSE,
                             !.first = IF g.msg_tasks_stack_id = 0
                                       THEN g.current_msg ELSE @,
                             !.dirty = @ \ {g.current_msg}])
      [] t.pc = "EM_inc" ->
            R(Goto(t, "EM_sub"),
              [g EXCEPT !.msg_tasks_stack_id = (@ + 1) % U16])
      [] t.pc = "EM_sub" ->
            R(Goto(t, "EM_wrap"), [g EXCEPT !.data_ptr = @ - CRC_SIZE])
      [] t.pc = "EM_wrap" ->
            IF ~DoWeHaveSpace(g.data_ptr + HEADER_SIZE + CRC_SIZE)
            THEN R(Goto(t, "EM_cur"), [g EXCEPT !.data_ptr = BufStart])
            ELSE IF ~InBuffer(g.data_ptr) THEN Fault(t, g)
            ELSE R(Goto(t, "EM_cur"), [g EXCEPT !.data_ptr = AlignStep(g)])
      [] t.pc = "EM_cur" ->
            R(Goto(t, "EM_est"), [g EXCEPT !.current_msg = g.data_ptr])
      [] t.pc = "EM_est" ->
            R(Goto(t, "EM_zone"),
              [g EXCEPT !.data_end_estimation = g.current_msg + HEADER_SIZE + CRC_SIZE])
      [] t.pc = "EM_zone" ->
            R(Call([t EXCEPT !.from = g.current_msg,
                             !.to = g.current_msg + HEADER_SIZE + CRC_SIZE],
                   "CMS_chk", "EM_ret"), g)
      [] t.pc = "EM_ret" -> R(Return(t), g)

\* the payload-and-header length SetMessage copies
SetMessageSize(size) ==
    IF size > MAX_DATA_MSG_SIZE THEN MAX_DATA_MSG_SIZE + HEADER_SIZE
    ELSE size + HEADER_SIZE

\* void MsgAlloc_SetMessage(msg_t *msg)
SetMessage(t, g, o) ==
    CASE t.pc = "SM_size" ->
            R([t EXCEPT !.pc = "SM_off", !.dsize = SetMessageSize(t.size)], g)
      [] t.pc = "SM_off" -> R(Goto(t, "SM_space"), [g EXCEPT !.irq = FALSE])
      [] t.pc = "SM_space" ->
            IF ~DoWeHaveSpace(g.current_msg + t.dsize)
            THEN R(Goto(t, "SM_clear"), [g EXCEPT !.current_msg = BufStart])
            ELSE R(Goto(t, "SM_clear"), g)
      [] t.pc = "SM_clear" ->
            R(Call([t EXCEPT !.from = g.current_msg,
                             !.to = g.current_msg + t.dsize],
                   "CMS_chk", "SM_bkp"), g)
      [] t.pc = "SM_bkp" -> R([t EXCEPT !.pc = "SM_fake", !.cpy = g.current_msg], g)
      [] t.pc = "SM_fake" ->
            R(Call(t, "EM_clear", "SM_on"),
              [g EXCEPT !.data_ptr = g.current_msg + t.dsize + CRC_SIZE])
      [] t.pc = "SM_on" -> R(Goto(t, "SM_copy"), [g EXCEPT !.irq = TRUE])
      [] t.pc = "SM_copy" ->
            IF ~RangeInBuffer(t.cpy, t.dsize) THEN Fault(t, g)
            ELSE R(Return(t),
                   StoreBytes(g, t.cpy, [k \in 1 .. t.dsize |-> LocalByte], t.cpy))

\* the first sizeof(header_t) bytes of msg_buffer are those of the header
\* whose relocation is pending (hdr_val: the value its bytes were received with)
HeaderAtStart(g) ==
    \A a \in BufStart .. (BufStart + HEADER_SIZE - 1) : g.msg_buffer[a] = g.hdr_val

\* void MsgAlloc_loop(void)
Loop(t, g, o) ==
    CASE t.pc = "LP_stat" ->
            R([t EXCEPT !.pc = "LP_cmp", !.stat = Ratio(g.msg_tasks_stack_id)], g)
      [] t.pc = "LP_cmp" ->
            R(Goto(t, "LP_chk"),
              IF t.stat > g.mem_stat.msg_stack_ratio
              THEN [g EXCEPT !.mem_stat.msg_stack_ratio = t.stat] ELSE g)
      [] t.pc = "LP_chk" ->
            IF g.copy_task_pointer # NULL
            THEN R(Goto(t, "LP_copy"), g) ELSE R(Return(t), g)
      [] t.pc = "LP_copy" ->
            IF ~RangeInBuffer(g.copy_task_pointer, HEADER_SIZE) THEN Fault(t, g)
            ELSE LET g1 == StoreBytes(g, BufStart,
                                      LoadBytes(g, g.copy_task_pointer, HEADER_SIZE), NULL)
                 IN  R([t EXCEPT !.pc = "LP_clr", !.ret_equal = HeaderAtStart(g1)], g1)
      [] t.pc = "LP_clr" ->
            R(Return(t), [g EXCEPT !.copy_task_pointer = NULL, !.hdr_val = 0])

\* the bytes at p, up to the end of the frame pushed at p, are those the frame
\* was made of (every byte of a frame carries the frame's value)
HoldsFrame(g, p) ==
    \A a \in Addr : p <= a /\ a < g.frame_end[p] => g.msg_buffer[a] = g.frame_val[p]

\* error_return_t MsgAlloc_PullMsgToInterpret(msg_t **returned_msg)
PullMsgToInterpret(t, g, o) ==
    CASE t.pc = "PI_chk" ->
            IF g.msg_tasks_stack_id > 0
            THEN R(Goto(t, "PI_read"), g)
            ELSE R(Return([t EXCEPT !.ret = "FAILED",
                                    !.ret_first = g.first # NULL,
                                    !.fifo_bad = ~g.ev_msg /\ g.exp_msg # <<>>]), g)
      [] t.pc = "PI_read" ->
            IF InBuffer(g.msg_tasks[0])
            THEN R(Call([t EXCEPT !.ret_msg = g.msg_tasks[0],
                                  !.twice = g.mpulled[0],
                                  !.ret_first = g.first = g.msg_tasks[0],
                                  !.fifo_bad = ~g.ev_msg /\ (g.exp_msg = <<>>
                                                  \/ Head(g.exp_msg) # g.msg_tasks[0])],
                        "CMT_assert", "PI_ret"),
                   [g EXCEPT !.exp_msg = IF @ = <<>> THEN @ ELSE Tail(@),
                             !.pulls = @ + 1, !.mpulled[0] = TRUE])
            ELSE AssertFail([t EXCEPT !.ret_msg = g.msg_tasks[0]], g)
      [] t.pc = "PI_ret" ->
            R(Return([t EXCEPT !.ret = "SUCCEED",
                               !.ret_dirty = t.ret_msg \in g.dirty,
                               !.ret_equal = HoldsFrame(g, t.ret_msg)]),
              [g EXCEPT !.interp = t.ret_msg])

\* ---------------------------------------------------------- Luos tasks
RemoveAt(seq, k) == [j \in 1 .. (Len(seq) - 1) |-> IF j < k THEN seq[j] ELSE seq[j + 1]]
\* position of the oldest pending entry for container c (0 if none)
FirstFor(seq, c) ==
    IF \E k \in 1 .. Len(seq) : seq[k].ll_container_pt = c
    THEN CHOOSE k \in 1 .. Len(seq) :
            /\ seq[k].ll_container_pt = c
            /\ \A j \in 1 .. (k - 1) : seq[j].ll_container_pt # c
    ELSE 0

\* the expected pull order of LuosTasks after a push of e
PushedLuos(g, e) ==
    IF g.ev_luos THEN g ELSE [g EXCEPT !.exp_luos = Append(@, e)]

\* the pull at position k of the expected order returned ret_msg
PulledLuos(t, g, k) ==
    R(Return([t EXCEPT !.ret = "SUCCEED",
                       !.ret_dirty = t.ret_msg \in g.dirty,
                       !.fifo_bad = ~g.ev_luos /\ (k = 0 \/ k > Len(g.exp_luos)
                                       \/ g.exp_luos[k].msg_pt # t.ret_msg)]),
      [g EXCEPT !.exp_luos = IF k = 0 \/ k > Len(@) THEN @ ELSE RemoveAt(@, k)])

\* void MsgAlloc_UsedMsgEnd(void)
UsedMsgEnd(t, g, o) == R(Return(t), [g EXCEPT !.used_msg = NULL])

\* the full-stack test of LuosTaskAlloc
LuosStackFull(g) == g.luos_tasks_stack_id = MAX_MSG_NB

\* void MsgAlloc_LuosTaskAlloc(ll_container_t *container, msg_t *concerned_msg)
LuosTaskAlloc(t, g, o) ==
    CASE t.pc = "LA_chk" ->
            IF LuosStackFull(g)
            THEN R(Call([t EXCEPT !.lid = 0], "CLT_assert", "LA_msg"),
                   [g EXCEPT !.ev_luos = TRUE, !.exp_luos = <<>>])
            ELSE R(Goto(t, "LA_msg"), g)
      [] t.pc = "LA_msg" ->
            IF g.luos_tasks_stack_id \notin Slots
            THEN Fault(t, [g EXCEPT !.oob_index = TRUE])
            ELSE R(Goto(t, "LA_cont"),
                   [g EXCEPT !.luos_tasks[g.luos_tasks_stack_id].msg_pt = t.msg])
      [] t.pc = "LA_cont" ->
            IF g.luos_tasks_stack_id \notin Slots
            THEN Fault(t, [g EXCEPT !.oob_index = TRUE])
            ELSE R(Goto(t, "LA_inc"),
                   [PushedLuos(g, [msg_pt |-> t.msg, ll_container_pt |-> t.cont])
                      EXCEPT !.luos_tasks[g.luos_tasks_stack_id].ll_container_pt = t.cont,
                             !.lpulled[g.luos_tasks_stack_id] = FALSE])
      [] t.pc = "LA_inc" ->
            R(Goto(t, "LA_stat"), [g EXCEPT !.luos_tasks_stack_id = (@ + 1) % U16])
      [] t.pc = "LA_stat" ->
            R([t EXCEPT !.pc = "LA_cmp", !.stat = Ratio(g.luos_tasks_stack_id)], g)
      [] t.pc = "LA_cmp" ->
            R(Return(t),
              IF t.stat > g.mem_stat.luos_stack_ratio
              THEN [g EXCEPT !.mem_stat.luos_stack_ratio = t.stat] ELSE g)

\* error_return_t MsgAlloc_PullMsg(ll_container_t *target_module, msg_t **returned_msg)
PullMsg(t, g, o) ==
    CASE t.pc = "PM_test" ->
            IF t.i < g.luos_tasks_stack_id
            THEN R(Goto(t, "PM_cmp"), g)
            ELSE R(Return([t EXCEPT !.ret = "FAILED",
                                    !.fifo_bad = ~g.ev_luos
                                                 /\ FirstFor(g.exp_luos, t.cont) # 0]), g)
      [] t.pc = "PM_cmp" ->
            IF LuosTaskAt(g, t.i, o).ll_container_pt = t.cont
            THEN R(Goto(t, "PM_read"), g)
            ELSE R([t EXCEPT !.pc = "PM_test", !.i = @ + 1], g)
      [] t.pc = "PM_read" ->
            R([t EXCEPT !.pc = "PM_used", !.ret_msg = LuosTaskAt(g, t.i, o).msg_pt,
                        !.twice = t.i \in Slots /\ g.lpulled[t.i]],
              [g EXCEPT !.lpulled = [i \in Slots |-> @[i] \/ i = t.i]])
      [] t.pc = "PM_used" ->
            R(Call([t EXCEPT !.lid = t.i], "CLT_assert", "PM_ret"),
              [g EXCEPT !.used_msg = t.ret_msg])
      [] t.pc = "PM_ret" -> PulledLuos(t, g, FirstFor(g.exp_luos, t.cont))

\* error_return_t MsgAlloc_PullMsgFromLuosTask(uint16_t luos_task_id, msg_t **returned_msg)
PullMsgFromLuosTask(t, g, o) ==
    CASE t.pc = "PL_chk" ->
            IF t.i < g.luos_tasks_stack_id
            THEN R(Goto(t, "PL_read"), g)
            ELSE R(Return([t EXCEPT !.ret = "FAILED",
                                    !.fifo_bad = ~g.ev_luos /\ t.i < Len(g.exp_luos)]), g)
      [] t.pc = "PL_read" ->
            R([t EXCEPT !.pc = "PL_used", !.ret_msg = LuosTaskAt(g, t.i, o).msg_pt,
                        !.twice = t.i \in Slots /\ g.lpulled[t.i]],
              [g EXCEPT !.lpulled = [i \in Slots |-> @[i] \/ i = t.i]])
      [] t.pc = "PL_used" ->
            R(Call([t EXCEPT !.lid = t.i], "CLT_assert", "PL_ret"),
              [g EXCEPT !.used_msg = t.ret_msg])
      [] t.pc = "PL_ret" -> PulledLuos(t, g, t.i + 1)

\* where the fields of header_t lie, in a header of HEADER_SIZE bytes
FieldAt == [source |-> 0, cmd |-> 1, size |-> 1]
\* msg->header.source, msg->header.cmd, msg->header.size
HeaderField(g, msg, field) == g.msg_buffer[msg + FieldAt[field]]

\* error_return_t MsgAlloc_LookAtLuosTask(uint16_t luos_task_id,
\*                                        ll_container_t **allocated_module)
LookAtLuosTask(t, g, o) ==
    CASE t.pc = "LK_chk" ->
            IF t.i < g.luos_tasks_stack_id
            THEN R(Goto(t, "LK_read"), g)
            ELSE R(Return([t EXCEPT !.ret = "FAILED"]), g)
      [] t.pc = "LK_read" ->
            R(Return([t EXCEPT !.ret = "SUCCEED",
                               !.out = LuosTaskAt(g, t.i, o).ll_container_pt]), g)

\* the body the three header accessors share: the test of the slot, then
\* the read of luos_tasks[luos_task_id].msg_pt->header.<field>
GetLuosTaskField(t, g, o, chk, read, field) ==
    CASE t.pc = chk ->
            IF t.i < g.luos_tasks_stack_id
            THEN R(Goto(t, read), g)
            ELSE R(Return([t EXCEPT !.ret = "FAILED"]), g)
      [] t.pc = read ->
            IF ~RangeInBuffer(LuosTaskAt(g, t.i, o).msg_pt, HEADER_SIZE) THEN Fault(t, g)
            ELSE R(Return([t EXCEPT !.ret = "SUCCEED",
                                    !.out = HeaderField(g, LuosTaskAt(g, t.i, o).msg_pt,
                                                        field)]), g)

\* error_return_t MsgAlloc_GetLuosTaskCmd(uint16_t luos_task_id, uint8_t *cmd)
GetLuosTaskCmd(t, g, o) == GetLuosTaskField(t, g, o, "GC_chk", "GC_read", "cmd")
\* error_return_t MsgAlloc_GetLuosTaskSourceId(uint16_t luos_task_id, uint16_t *source_id)
GetLuosTaskSourceId(t, g, o) == GetLuosTaskField(t, g, o, "GS_chk", "GS_read", "source")
\* error_return_t MsgAlloc_GetLuosTaskSize(uint16_t luos_task_id, uint16_t *size)
GetLuosTaskSize(t, g, o) == GetLuosTaskField(t, g, o, "GZ_chk", "GZ_read", "size")

\* the pending entries that do not reference msg
WithoutMsg(seq, msg) == SelectSeq(seq, LAMBDA e : e.msg_pt # msg)

\* one more turn of the while loop (counted up to one past the stack's size)
Turn(n) == IF n > MAX_MSG_NB THEN n ELSE n + 1

\* void MsgAlloc_ClearMsgFromLuosTasks(msg_t *msg)
ClearMsgFromLuosTasks(t, g, o) ==
    CASE t.pc = "CF_test" ->
            IF t.i < g.luos_tasks_stack_id
            THEN R(Goto(t, "CF_cmp"), g)
            ELSE R(Return(t), g)
      [] t.pc = "CF_cmp" ->
            IF LuosTaskAt(g, t.i, o).msg_pt = t.msg
            THEN R(Call([t EXCEPT !.lid = t.i, !.iter = Turn(@)], "CLT_assert", "CF_test"),
                   [g EXCEPT !.exp_luos = WithoutMsg(@, t.msg)])
            ELSE R([t EXCEPT !.pc = "CF_test", !.i = @ + 1, !.iter = Turn(@)], g)

\* ------------------------------------------------------------ Tx tasks
\* byte-by-byte forward copy inside msg_buffer (one outcome of an
\* overlapping memcpy)
RECURSIVE CopyForward(_, _, _, _)
CopyForward(g, dst, src, n) ==
    IF n = 0 THEN g
    ELSE CopyForward(StoreBytes(g, dst, <<g.msg_buffer[src]>>, NULL),
                     dst + 1, src + 1, n - 1)

\* memcpy(dst, src, n) with both regions in msg_buffer; when the regions
\* overlap the result depends on the library, and o.fwd picks it
Memcpy(g, dst, src, n, o) ==
    IF dst > src /\ dst < src + n /\ o.fwd
    THEN CopyForward(g, dst, src, n)
    ELSE StoreBytes(g, dst, LoadBytes(g, src, n), NULL)

\* the length argument of the second copy of the frame to send: size - 3
\* converted to size_t. A size_t has 16 bits or more: the narrowest one gives
\* size - 3 + 2^16 below 3, a wider one a longer length still
RestLen(size) == IF size >= 3 THEN size - 3 ELSE size - 3 + U16

\* the overflow test that follows the push in SetTxTask
TxStackFull(g) == g.tx_tasks_stack_id = MAX_MSG_NB

\* void MsgAlloc_PullMsgFromTxTask(void)
\* (no interrupt handler reads or writes tx_tasks: the slide is one step)
PullMsgFromTxTask(t, g, o) ==
    CASE t.pc = "PT_assert" ->
            IF g.tx_tasks_stack_id > 0 /\ g.tx_tasks_stack_id < MAX_MSG_NB
            THEN R(Goto(t, "PT_slide"), g)
            ELSE AssertFail(t, g)
      [] t.pc = "PT_slide" ->
            LET n == g.tx_tasks_stack_id
                slid == [i \in Slots |->
                            IF i < n - 1 THEN g.tx_tasks[i + 1]
                            ELSE IF i = n - 1 THEN NoTxTask
                            ELSE g.tx_tasks[i]]
            IN  R(Return(t),
                  Shifted([g EXCEPT !.tx_tasks = slid,
                                    !.tx_tasks_stack_id = n - 1,
                                    !.exp_tx = IF @ = <<>> THEN @ ELSE Tail(@)]))

\* error_return_t MsgAlloc_GetTxTask(char **data, uint16_t *size)
GetTxTask(t, g, o) ==
    IF ~(g.tx_tasks_stack_id < MAX_MSG_NB) THEN AssertFail(t, g)
    ELSE IF g.tx_tasks_stack_id > 0
    THEN R(Return([t EXCEPT !.ret = "SUCCEED",
                            !.ret_msg = g.tx_tasks[0].data_pt,
                            !.ret_size = g.tx_tasks[0].size,
                            !.fifo_bad = ~g.ev_tx /\ (g.exp_tx = <<>>
                                            \/ Head(g.exp_tx) # g.tx_tasks[0])]), g)
    ELSE R(Return([t EXCEPT !.ret = "FAILED",
                            !.fifo_bad = ~g.ev_tx /\ g.exp_tx # <<>>]), g)

\* the expected order of TxTasks after a push of e
PushedTx(g, e) ==
    IF g.ev_tx THEN g ELSE [g EXCEPT !.exp_tx = Append(@, e)]

\* void MsgAlloc_SetTxTask(char *data, uint16_t size)
SetTxTask(t, g, o) ==
    CASE t.pc = "TX_assert" ->
            IF g.tx_tasks_stack_id < MAX_MSG_NB /\ InBuffer(g.current_msg)
            THEN R(Goto(t, "TX_off"), g)
            ELSE AssertFail(t, g)
      [] t.pc = "TX_off" -> R(Goto(t, "TX_prog"), [g EXCEPT !.irq = FALSE])
      [] t.pc = "TX_prog" ->
            R([t EXCEPT !.pc = "TX_chk1",
                        !.prog = (g.data_ptr - g.current_msg) % U16,
                        !.est = (g.data_end_estimation - g.current_msg) % U16,
                        !.bkp = g.current_msg], g)
      [] t.pc = "TX_chk1" ->
            IF ~DoWeHaveSpace(g.current_msg + t.size)
            THEN R([t EXCEPT !.pc = "TX_b1_dptr", !.tx_msg = BufStart],
                   [g EXCEPT !.current_msg = BufStart + t.size])
            ELSE R([t EXCEPT !.pc = "TX_chk2", !.tx_msg = g.current_msg], g)
      [] t.pc = "TX_b1_dptr" ->
            R(Goto(t, "TX_b1_est"), [g EXCEPT !.data_ptr = g.current_msg + t.prog])
      [] t.pc = "TX_b1_est" ->
            R(Goto(t, "TX_b1_clear"),
              [g EXCEPT !.data_end_estimation = g.current_msg + t.est])
      [] t.pc = "TX_b1_clear" ->
            R(Call([t EXCEPT !.from = t.tx_msg, !.to = g.data_end_estimation],
                   "CMS_chk", "TX_cpy_rx"), g)
      [] t.pc = "TX_chk2" ->
            IF ~DoWeHaveSpace(g.current_msg + t.size + t.est)
            THEN R(Call([t EXCEPT !.from = t.tx_msg, !.to = t.tx_msg + t.size],
                        "CMS_chk", "TX_b2_cur"), g)
            ELSE R(Goto(t, "TX_b3_est"),
                   [g EXCEPT !.current_msg = g.current_msg + t.size])
      [] t.pc = "TX_b2_cur" ->
            R(Goto(t, "TX_b2_est"), [g EXCEPT !.current_msg = BufStart])
      [] t.pc = "TX_b2_est" ->
            R(Goto(t, "TX_b2_clear"),
              [g EXCEPT !.data_end_estimation = g.current_msg + t.est])
      [] t.pc = "TX_b2_clear" ->
            R(Call([t EXCEPT !.from = g.current_msg, !.to = g.data_end_estimation],
                   "CMS_chk", "TX_dptr"), g)
      [] t.pc = "TX_b3_est" ->
            R(Goto(t, "TX_b3_clear"),
              [g EXCEPT !.data_end_estimation = g.current_msg + t.est])
      [] t.pc = "TX_b3_clear" ->
            R(Call([t EXCEPT !.from = t.tx_msg, !.to = g.data_end_estimation],
                   "CMS_chk", "TX_dptr"), g)
      [] t.pc = "TX_dptr" ->
            R(Goto(t, "TX_assert2"), [g EXCEPT !.data_ptr = g.current_msg + t.prog])
      [] t.pc = "TX_assert2" ->
            IF g.data_ptr < BufEnd THEN R(Goto(t, "TX_on"), g) ELSE AssertFail(t, g)
      [] t.pc = "TX_on" -> R(Goto(t, "TX_assert3"), [g EXCEPT !.irq = TRUE])
      [] t.pc = "TX_assert3" ->
            IF g.data_ptr < BufEnd THEN R(Goto(t, "TX_cpy_rx"), g) ELSE AssertFail(t, g)
      [] t.pc = "TX_cpy_rx" ->
            IF ~(RangeInBuffer(g.current_msg, t.prog) /\ RangeInBuffer(t.bkp, t.prog))
            THEN Fault(t, g)
            ELSE R(Goto(t, "TX_cpy3"), Memcpy(g, g.current_msg, t.bkp, t.prog, o))
      [] t.pc = "TX_cpy3" ->
            IF ~RangeInBuffer(t.tx_msg, 3) THEN Fault(t, g)
            ELSE R(Goto(t, "TX_off2"),
                   StoreBytes([g EXCEPT !.tx_overread = @ \/ t.size < 3],
                              t.tx_msg, <<TxByte, TxByte, TxByte>>, NULL))
      [] t.pc = "TX_off2" -> R(Goto(t, "TX_push"), [g EXCEPT !.irq = FALSE])
      [] t.pc = "TX_push" ->
            IF g.tx_tasks_stack_id \notin Slots
            THEN Fault(t, [g EXCEPT !.oob_index = TRUE])
            ELSE LET e == [data_pt |-> t.tx_msg, size |-> t.size]
                 IN  R(Goto(t, "TX_on2"),
                       [PushedTx(g, e)
                          EXCEPT !.tx_tasks[g.tx_tasks_stack_id] = e,
                                 !.tx_tasks_stack_id = g.tx_tasks_stack_id + 1])
      [] t.pc = "TX_on2" -> R(Goto(t, "TX_ovf"), [g EXCEPT !.irq = TRUE])
      [] t.pc = "TX_ovf" ->
            IF TxStackFull(g)
            THEN R(Call(t, "PT_assert", "TX_ovf_drop"),
                   [g EXCEPT !.ev_tx = TRUE, !.exp_tx = <<>>])
            ELSE R(Goto(t, "TX_rest"), g)
      [] t.pc = "TX_ovf_drop" -> R(Goto(t, "TX_rest"), DropInc(g))
      [] t.pc = "TX_rest" ->
            IF ~RangeInBuffer(t.tx_msg + 3, RestLen(t.size))
            THEN Fault(t, [g EXCEPT !.tx_overread = @ \/ RestLen(t.size) > t.size])
            ELSE R(Return(t),
                   StoreBytes(g, t.tx_msg + 3,
                              [k \in 1 .. RestLen(t.size) |-> TxByte], NULL))

IsEmpty_mut(t, g, o) == R(Return([t EXCEPT !.ret = "SUCCEED"]), g)
\* error_return_t MsgAlloc_IsEmpty(void)
IsEmpty(t, g, o) ==
    R(Return([t EXCEPT !.ret = IF g.data_ptr = BufStart THEN "SUCCEED" ELSE "FAILED"]), g)

\* void MsgAlloc_Init(memory_stats_t *memory_stats), called again on a running
\* allocator with the statistics record it already uses (or with NULL)
MsgAlloc_Init(t, g, o) ==
    CASE t.pc = "IN_cur" -> R(Goto(t, "IN_ptr"), [g EXCEPT !.current_msg = BufStart])
      [] t.pc = "IN_ptr" -> R(Goto(t, "IN_est"), [g EXCEPT !.data_ptr = BufStart])
      [] t.pc = "IN_est" ->
            R(Goto(t, "IN_mid"),
              [g EXCEPT !.data_end_estimation = g.current_msg + HEADER_SIZE + CRC_SIZE])
      [] t.pc = "IN_mid" -> R(Goto(t, "IN_mset"), [g EXCEPT !.msg_tasks_stack_id = 0])
      [] t.pc = "IN_mset" ->
            R(Goto(t, "IN_lid"),
              [g EXCEPT !.msg_tasks = [i \in Slots |-> NULL],
                        !.ev_msg = TRUE, !.exp_msg = <<>>, !.first = NULL,
                        !.rxlog = <<>>, !.pulls = 0,
                        !.mtag = [i \in Slots |-> 0],
                        !.mpulled = [i \in Slots |-> FALSE]])
      [] t.pc = "IN_lid" -> R(Goto(t, "IN_lset"), [g EXCEPT !.luos_tasks_stack_id = 0])
      [] t.pc = "IN_lset" ->
            R(Goto(t, "IN_copy"),
              [g EXCEPT !.luos_tasks = [i \in Slots |-> NoLuosTask],
                        !.ev_luos = TRUE, !.exp_luos = <<>>,
                        !.lpulled = [i \in Slots |-> FALSE]])
      [] t.pc = "IN_copy" -> R(Goto(t, "IN_used"), [g EXCEPT !.copy_task_pointer = NULL])
      [] t.pc = "IN_used" -> R(Goto(t, "IN_stat"), [g EXCEPT !.used_msg = NULL])
      [] t.pc = "IN_stat" ->
            R(Return(t), [g EXCEPT !.trail = IF @ = "reset" THEN "init" ELSE @])

\* ------------------------------------------------------------ dispatch
IN_pcs == {"IN_cur", "IN_ptr", "IN_est", "IN_mid", "IN_mset", "IN_lid", "IN_lset",
           "IN_copy", "IN_used", "IN_stat"}
CMT_pcs == {"CMT_assert", "CMT_test", "CMT_on", "CMT_off", "CMT_move", "CMT_dec",
            "CMT_zero", "CMT_irq"}
CLT_pcs == {"CLT_assert", "CLT_test", "CLT_move", "CLT_off", "CLT_dec", "CLT_on"}
CMS_pcs == {"CMS_chk", "CMS_used", "CMS_used_drop", "CMS_luos", "CMS_luos_drop",
            "CMS_msg", "CMS_msg_drop"}
IM_pcs == {"IM_clear", "IM_reset"}
EM_pcs == {"EM_clear", "EM_full", "EM_full_drop", "EM_assert", "EM_push", "EM_inc",
           "EM_sub", "EM_wrap", "EM_cur", "EM_est", "EM_zone", "EM_ret"}
SM_pcs == {"SM_size", "SM_off", "SM_space", "SM_clear", "SM_bkp", "SM_fake", "SM_on",
           "SM_copy"}
LP_pcs == {"LP_stat", "LP_cmp", "LP_chk", "LP_copy", "LP_clr"}
PI_pcs == {"PI_chk", "PI_read", "PI_ret"}
LA_pcs == {"LA_chk", "LA_msg", "LA_cont", "LA_inc", "LA_stat", "LA_cmp"}
PM_pcs == {"PM_test", "PM_cmp", "PM_read", "PM_used", "PM_ret"}
PL_pcs == {"PL_chk", "PL_read", "PL_used", "PL_ret"}
CF_pcs == {"CF_test", "CF_cmp"}
AC_pcs == {"LK_chk", "LK_read", "GC_chk", "GC_read", "GS_chk", "GS_read",
           "GZ_chk", "GZ_read"}
PT_pcs == {"PT_assert", "PT_slide"}
TX_pcs == {"TX_assert", "TX_off", "TX_prog", "TX_chk1", "TX_b1_dptr", "TX_b1_est",
           "TX_b1_clear", "TX_chk2", "TX_b2_cur", "TX_b2_est", "TX_b2_clear",
           "TX_b3_est", "TX_b3_clear", "TX_dptr", "TX_assert2", "TX_on", "TX_assert3",
           "TX_cpy_rx", "TX_cpy3", "TX_off2", "TX_push", "TX_on2", "TX_ovf",
           "TX_ovf_drop", "TX_rest"}

\* the statement at t.pc
\* the statement at t.pc reads past a task array, or copies between
\* overlapping regions: what it yields is not fixed by the source
Consults(t, g) ==
    \/ t.pc = "CMT_move" /\ t.rm \in Slots /\ SlideFrom(t.rm) \notin Slots
    \/ t.pc = "CLT_move" /\ t.lrm \in Slots /\ t.lrm + 1 \notin Slots
    \/ t.pc = "EM_assert" /\ g.msg_tasks_stack_id \notin Slots
    \/ /\ t.pc \in {"PM_cmp", "PM_read", "PL_read", "CF_cmp", "LK_read", "GC_read",
                   "GS_read", "GZ_read"}
       /\ t.i \notin Slots
    \/ /\ t.pc = "TX_cpy_rx"
       /\ g.current_msg > t.bkp /\ g.current_msg < t.bkp + t.prog

Statement(t, g, o) ==
    CASE t.pc \in CMT_pcs -> ClearMsgTask(t, g, o)
      [] t.pc \in CLT_pcs -> ClearLuosTask(t, g, o)
      [] t.pc \in CMS_pcs -> ClearMsgSpace(t, g, o)
      [] t.pc \in IM_pcs -> InvalidMsg(t, g, o)
      [] t.pc \in EM_pcs -> EndMsg(t, g, o)
      [] t.pc \in SM_pcs -> SetMessage(t, g, o)
      [] t.pc \in LP_pcs -> Loop(t, g, o)
      [] t.pc \in PI_pcs -> PullMsgToInterpret(t, g, o)
      [] t.pc \in LA_pcs -> LuosTaskAlloc(t, g, o)
      [] t.pc \in PM_pcs -> PullMsg(t, g, o)
      [] t.pc \in PL_pcs -> PullMsgFromLuosTask(t, g, o)
      [] t.pc \in CF_pcs -> ClearMsgFromLuosTasks(t, g, o)
      [] t.pc \in {"LK_chk", "LK_read"} -> LookAtLuosTask(t, g, o)
      [] t.pc \in {"GC_chk", "GC_read"} -> GetLuosTaskCmd(t, g, o)
      [] t.pc \in {"GS_chk", "GS_read"} -> GetLuosTaskSourceId(t, g, o)
      [] t.pc \in {"GZ_chk", "GZ_read"} -> GetLuosTaskSize(t, g, o)
      [] t.pc \in PT_pcs -> PullMsgFromTxTask(t, g, o)
      [] t.pc \in TX_pcs -> SetTxTask(t, g, o)
      [] t.pc \in IN_pcs -> MsgAlloc_Init(t, g, o)
      [] t.pc = "SD" -> SetData(t, g, o)
      [] t.pc = "VH" -> ValidHeader(t, g, o)
      [] t.pc = "UE" -> UsedMsgEnd(t, g, o)
      [] t.pc = "GT" -> GetTxTask(t, g, o)
      [] t.pc = "IE" -> IsEmpty(t, g, o)

\* one statement of the context t; t.asked records a consulted oracle
Step(t, g, o) ==
    IF Consults(t, g)
    THEN [Statement(t, g, o) EXCEPT !.t.asked = TRUE]
    ELSE Statement(t, g, o)

\* statements evaluated in one stretch (a bound of the evaluation only)
Stretch == 12
\* the element of a one-element set
The(S) == CHOOSE x \in S : TRUE

Stopped(r) == r.t.pc = "done" \/ r.g.halted # "none"
\* execution stops at the end of the function, at a halt, and for a masked
\* run once interrupts are enabled
Halts(r, masked) == Stopped(r) \/ (masked /\ r.g.irq)

\* sequential execution, at most k statements of it
RECURSIVE RunSome(_, _, _, _)
RunSome(r, o, masked, k) ==
    IF k = 0 \/ Halts(r, masked) THEN r
    ELSE The({RunSome(x, o, masked, k - 1) : x \in {Step(r.t, r.g, o)}})
\* sequential execution, in stretches of Stretch statements
RECURSIVE RunOn(_, _, _)
RunOn(r, o, masked) ==
    IF Halts(r, masked) THEN r
    ELSE The({RunOn(x, o, masked) : x \in {RunSome(r, o, masked, Stretch)}})

\* a function run to its end (an interrupt handler, or a call nothing pre-empts)
Run(t, g, o) == RunOn(R(t, g), o, FALSE)

\* one statement, and those after it for as long as interrupts are masked
RunMasked(t, g, o) == The({RunOn(x, o, TRUE) : x \in {Step(t, g, o)}})

\* ------------------------------------------------------------- bounds
\* frames the bus delivers, frames the node sends, tasks it allocates and
\* local messages it posts in one run
MaxFrames == 4
SomeFrames == 3
FewFrames == 2
OneFrame == 1
MaxTx == 3
FewTx == 2
OneTx == 1
MaxAlloc == 4
SomeAlloc == 3
FewAlloc == 2
MaxLocal == 1
FewLocal == 2
\* interrupts taken while the main context is inside a call
MaxPreempt == 1
OneInit == 1
TxSmall == 3
TxLarge == 11
TxMid == 8
TxTiny == 2
RxSizes == {0, MAX_DATA_MSG_SIZE}
LocalSizes == {0, MAX_DATA_MSG_SIZE + 1}

\* --------------------------------------------------------------- state
VARIABLES
    msg_buffer,            \* the bytes of msg_buffer, by address
    current_msg, data_ptr, data_end_estimation,
    copy_task_pointer,
    msg_tasks, msg_tasks_stack_id,
    used_msg,
    luos_tasks, luos_tasks_stack_id,
    tx_tasks, tx_tasks_stack_id,
    mem_stat,              \* the memory_stats_t record Init was given
    irq,                   \* LuosHAL_SetIrqState: TRUE when interrupts are enabled
    halted,                \* "none", "assert" (LUOS_ASSERT failed) or "fault"
    main,                  \* the main context: its position and locals
    rx,                    \* the framing collaborator: bytes received, header state
    budget,                \* operations the environment may still start
    obs                    \* observations: frame extents, overwritten frames, ...

vars == <<msg_buffer, current_msg, data_ptr, data_end_estimation, copy_task_pointer,
          msg_tasks, msg_tasks_stack_id, used_msg, luos_tasks, luos_tasks_stack_id,
          tx_tasks, tx_tasks_stack_id, mem_stat, irq, halted, main, rx, budget, obs>>

\* the globals as one record
G == [msg_buffer |-> msg_buffer, current_msg |-> current_msg, data_ptr |-> data_ptr,
      data_end_estimation |-> data_end_estimation,
      copy_task_pointer |-> copy_task_pointer,
      msg_tasks |-> msg_tasks, msg_tasks_stack_id |-> msg_tasks_stack_id,
      used_msg |-> used_msg,
      luos_tasks |-> luos_tasks, luos_tasks_stack_id |-> luos_tasks_stack_id,
      tx_tasks |-> tx_tasks, tx_tasks_stack_id |-> tx_tasks_stack_id,
      mem_stat |-> mem_stat, irq |-> irq, halted |-> halted,
      frame_end |-> obs.frame_end, dirty |-> obs.dirty, cms_missed |-> obs.cms_missed,
      ev_msg |-> obs.ev_msg, ev_luos |-> obs.ev_luos, ev_tx |-> obs.ev_tx,
      exp_msg |-> obs.exp_msg, exp_luos |-> obs.exp_luos, exp_tx |-> obs.exp_tx,
      interp |-> obs.interp, shift_unmasked |-> obs.shift_unmasked,
      oob_index |-> obs.oob_index, tx_overread |-> obs.tx_overread,
      full_push |-> obs.full_push, sated |-> obs.sated,
      frame_val |-> obs.frame_val, first |-> obs.first, hdr_val |-> obs.hdr_val,
      used_missed |-> obs.used_missed, rxlog |-> obs.rxlog, pulls |-> obs.pulls,
      mtag |-> obs.mtag, lpulled |-> obs.lpulled,
      mpulled |-> obs.mpulled, trail |-> obs.trail]

Commit(g) ==
    /\ msg_buffer' = g.msg_buffer
    /\ current_msg' = g.current_msg
    /\ data_ptr' = g.data_ptr
    /\ data_end_estimation' = g.data_end_estimation
    /\ copy_task_pointer' = g.copy_task_pointer
    /\ msg_tasks' = g.msg_tasks
    /\ msg_tasks_stack_id' = g.msg_tasks_stack_id
    /\ used_msg' = g.used_msg
    /\ luos_tasks' = g.luos_tasks
    /\ luos_tasks_stack_id' = g.luos_tasks_stack_id
    /\ tx_tasks' = g.tx_tasks
    /\ tx_tasks_stack_id' = g.tx_tasks_stack_id
    /\ mem_stat' = g.mem_stat
    /\ irq' = g.irq
    /\ halted' = g.halted
    /\ obs' = [frame_end |-> g.frame_end, dirty |-> g.dirty,
               cms_missed |-> g.cms_missed,
               ev_msg |-> g.ev_msg, ev_luos |-> g.ev_luos, ev_tx |-> g.ev_tx,
               exp_msg |-> g.exp_msg, exp_luos |-> g.exp_luos, exp_tx |-> g.exp_tx,
               interp |-> g.interp, shift_unmasked |-> g.shift_unmasked,
               oob_index |-> g.oob_index, tx_overread |-> g.tx_overread,
               full_push |-> g.full_push, sated |-> g.sated,
               frame_val |-> g.frame_val, first |-> g.first, hdr_val |-> g.hdr_val,
               used_missed |-> g.used_missed, rxlog |-> g.rxlog, pulls |-> g.pulls,
               mtag |-> g.mtag, lpulled |-> g.lpulled,
               mpulled |-> g.mpulled, trail |-> g.trail]

Idle ==
    [pc |-> "idle", stk |-> <<>>, op |-> "none",
     from |-> 0, to |-> 0, rm |-> 0, lrm |-> 0, lid |-> 0, i |-> 0,
     msg |-> 0, cont |-> 0, size |-> 0, valid |-> FALSE, byte |-> 0,
     dsize |-> 0, cpy |-> 0, bkp |-> 0, tx_msg |-> 0, prog |-> 0, est |-> 0,
     stat |-> 0, ret |-> "none", ret_msg |-> 0, ret_size |-> 0,
     ret_dirty |-> FALSE, fifo_bad |-> FALSE, asked |-> FALSE,
     ret_first |-> FALSE, ret_equal |-> TRUE,
     oldid |-> 0, used0 |-> 0, pre0 |-> 0, due |-> 0, bytes0 |-> <<>>, iter |-> 0,
     twice |-> FALSE, out |-> 0,
     full |-> FALSE, drop0 |-> 0, old |-> <<>>]

Entry(op, pc) == [Idle EXCEPT !.op = op, !.pc = pc]

\* the parts of the interface an application uses
RxApi == {"loop", "PullMsgToInterpret", "IsEmpty"}
TxApi == {"SetTxTask", "PullMsgFromTxTask", "GetTxTask"}
LuosApi == {"LuosTaskAlloc", "PullMsg", "PullMsgFromLuosTask",
            "ClearMsgFromLuosTasks", "UsedMsgEnd"}
LocalApi == {"SetMessage"}
Accessors == {"LookAtLuosTask", "GetLuosTaskCmd", "GetLuosTaskSourceId",
              "GetLuosTaskSize"}
Uses(n, api) == IF n > 0 THEN api ELSE {}

\* the scenarios explored: what the bus and the application do in one run
Profile(rx_, bytes_, tx_, alloc_, local_, preempt_) ==
    [rx |-> rx_, bytes |-> bytes_, tx |-> tx_, alloc |-> alloc_, local |-> local_,
     preempt |-> preempt_, calm |-> FALSE, txs |-> {TxSmall, TxLarge},
     init |-> 0, drops |-> 0, sizes |-> RxSizes, conts |-> Containers,
     api |-> RxApi \cup Uses(tx_, TxApi) \cup Uses(alloc_, LuosApi)
                   \cup Uses(local_, LocalApi)]
\* the application stages long frames and interprets, between two frames only
Calm(p) ==
    [p EXCEPT !.calm = TRUE, !.txs = {TxMid, TxLarge},
              !.api = {"SetTxTask", "PullMsgToInterpret"}]
\* the application stages frames, posts local messages and interprets
Posting(p) == [p EXCEPT !.api = {"SetTxTask", "SetMessage", "PullMsgToInterpret"}]
\* the statistics record already counts DROP_MAX - 1 drops; the application
\* restarts the allocator
Worn(p) ==
    [p EXCEPT !.drops = DROP_MAX - 1, !.init = OneInit,
              !.api = {"Init", "loop", "IsEmpty"}]
\* the application stages frames shorter than the three bytes SetTxTask
\* copies first
Terse(p) == [p EXCEPT !.txs = {TxTiny}, !.api = {"SetTxTask"}]
\* the application stages one long frame and posts local messages, while
\* the frames on the bus carry no payload
Crowding(p) ==
    [p EXCEPT !.txs = {TxLarge}, !.sizes = {0}, !.api = {"SetTxTask", "SetMessage"}]
\* the application interprets, delivers and inspects the pending deliveries
Inspecting(p) ==
    [p EXCEPT !.api = {"PullMsgToInterpret", "LuosTaskAlloc"} \cup Accessors]
\* the application interprets and delivers to its one container, slot by
\* slot; every frame on the bus carries the longest payload
Delivering(p) ==
    [p EXCEPT !.sizes = {MAX_DATA_MSG_SIZE}, !.conts = {1},
              !.api = {"PullMsgToInterpret", "LuosTaskAlloc", "PullMsgFromLuosTask"}]
Profiles ==
    { Profile(MaxFrames, OneByte, 0, 0, 0, 0),
      Profile(SomeFrames, OneByte, 0, 0, 0, MaxPreempt),
      Profile(FewFrames, OneByte, OneTx, 0, 0, MaxPreempt),
      Profile(OneFrame, OneByte, MaxTx, 0, 0, 0),
      Calm(Profile(SomeFrames, OneByte, FewTx, 0, 0, 0)),
      Profile(SomeFrames, RxByteMax, 0, 0, 0, 0),
      Profile(OneFrame, OneByte, 0, MaxAlloc, 0, 0),
      Inspecting(Profile(FewFrames, RxByteMax, 0, FewAlloc, 0, 0)),
      Profile(OneFrame, OneByte, OneTx, FewAlloc, 0, 0),
      Posting(Profile(OneFrame, OneByte, OneTx, 0, MaxLocal, MaxPreempt)),
      Delivering(Profile(SomeFrames, OneByte, 0, SomeAlloc, 0, MaxPreempt)),
      Worn(Profile(SomeFrames, OneByte, 0, 0, 0, 0)),
      Terse(Profile(OneFrame, OneByte, OneTx, 0, 0, 0)),
      Crowding(Profile(OneFrame, OneByte, OneTx, 0, FewLocal, MaxPreempt)) }

\* no frame is being received; a frame's bytes all carry the value of its first
NoRx == [count |-> 0, hdr |-> "none", size |-> 0, byte |-> 0]

\* void MsgAlloc_Init(memory_stats_t *memory_stats), on the zeroed statics
Init ==
    /\ msg_buffer = [a \in Addr |-> 0]
    /\ current_msg = BufStart
    /\ data_ptr = BufStart
    /\ data_end_estimation = BufStart + HEADER_SIZE + CRC_SIZE
    /\ copy_task_pointer = NULL
    /\ msg_tasks = [i \in Slots |-> NULL]
    /\ msg_tasks_stack_id = 0
    /\ used_msg = NULL
    /\ luos_tasks = [i \in Slots |-> NoLuosTask]
    /\ luos_tasks_stack_id = 0
    /\ tx_tasks = [i \in Slots |-> NoTxTask]
    /\ tx_tasks_stack_id = 0
    /\ irq = TRUE
    /\ halted = "none"
    /\ main = Idle
    /\ rx = NoRx
    /\ budget \in Profiles
    /\ mem_stat = [msg_stack_ratio |-> 0, luos_stack_ratio |-> 0,
                   msg_drop_number |-> budget.drops]
    /\ obs = [frame_end |-> [a \in Addr |-> 0], dirty |-> {}, cms_missed |-> FALSE,
              ev_msg |-> FALSE, ev_luos |-> FALSE, ev_tx |-> FALSE,
              exp_msg |-> <<>>, exp_luos |-> <<>>, exp_tx |-> <<>>,
              interp |-> NULL, shift_unmasked |-> FALSE, oob_index |-> FALSE,
              tx_overread |-> FALSE, full_push |-> FALSE, sated |-> FALSE,
              frame_val |-> [a \in Addr |-> 0], first |-> NULL, hdr_val |-> 0,
              used_missed |-> FALSE, rxlog |-> <<>>, pulls |-> 0,
              mtag |-> [i \in Slots |-> 0],
              lpulled |-> [i \in Slots |-> FALSE], mpulled |-> [i \in Slots |-> FALSE], trail |-> "init"]

\* -------------------------------------------------- interrupt context
Running == halted = "none"
\* an interrupt is taken when interrupts are enabled; the main context is
\* between two statements, or between two calls
IsrMay ==
    /\ Running /\ irq /\ main.pc # "done"
    /\ main.pc = "idle" \/ budget.preempt > 0
Charge(b) == IF main.pc = "idle" THEN b ELSE [b EXCEPT !.preempt = @ - 1]

Oracle0 == [oob |-> NULL, fwd |-> FALSE]
\* the outcomes of running t under run: one, unless the run consults the oracle
Outcomes(run(_, _, _), t) ==
    UNION {IF r0.t.asked
           THEN {[r EXCEPT !.t.asked = FALSE] : r \in {run(t, G, o) : o \in Oracles}}
           ELSE {r0} : r0 \in {run(t, G, Oracle0)}}

\* what the allocator was asked since MsgAlloc_Init: nothing ("init"), one
\* MsgAlloc_SetData ("byte") or more; "reset" while MsgAlloc_Init runs
Since(op, trail) ==
    CASE op = "IsEmpty" -> trail
      [] op = "Init" -> "reset"
      [] op = "SetData" -> IF trail = "init" THEN "byte" ELSE "more"
      [] OTHER -> "more"

Isr(t) ==
    \E r \in Outcomes(Run, t) : Commit([r.g EXCEPT !.trail = Since(t.op, @)])

Isr_SetData ==
    /\ IsrMay
    /\ \/ rx.hdr = "none" /\ rx.count < HEADER_SIZE
       \/ rx.hdr = "valid" /\ rx.count < HEADER_SIZE + rx.size + CRC_SIZE
    /\ rx.count = 0 => budget.rx > 0
    /\ \E b \in (IF rx.count = 0 THEN 1 .. budget.bytes ELSE {rx.byte}) :
          /\ Isr([Entry("SetData", "SD") EXCEPT !.byte = b])
          /\ rx' = [rx EXCEPT !.count = @ + 1, !.byte = b]
    /\ budget' = Charge(IF rx.count = 0 THEN [budget EXCEPT !.rx = @ - 1] ELSE budget)
    /\ UNCHANGED main

Isr_ValidHeader ==
    /\ IsrMay
    /\ rx.hdr = "none" /\ rx.count = HEADER_SIZE
    /\ \E v \in BOOLEAN, sz \in budget.sizes :
          /\ Isr([Entry("ValidHeader", "VH")
                    EXCEPT !.valid = v, !.size = sz, !.byte = rx.byte])
          /\ rx' = IF v THEN [rx EXCEPT !.hdr = "valid", !.size = sz] ELSE NoRx
    /\ budget' = Charge(budget)
    /\ UNCHANGED main

Isr_EndMsg ==
    /\ IsrMay
    /\ rx.hdr = "valid" /\ rx.count = HEADER_SIZE + rx.size + CRC_SIZE
    /\ Isr([Entry("EndMsg", "EM_clear") EXCEPT !.byte = rx.byte])
    /\ rx' = NoRx
    /\ budget' = Charge(budget)
    /\ UNCHANGED main

Isr_InvalidMsg ==
    /\ IsrMay
    /\ rx.count > 0
    /\ Isr(Entry("InvalidMsg", "IM_clear"))
    /\ rx' = NoRx
    /\ budget' = Charge(budget)
    /\ UNCHANGED main

IsrNext == Isr_SetData \/ Isr_ValidHeader \/ Isr_EndMsg \/ Isr_InvalidMsg

\* ------------------------------------------------------- main context
\* the main context enters a function and runs to its first pre-emption point
Begin(t) ==
    /\ Running /\ main.pc = "idle"
    /\ t.op \in budget.api
    /\ budget.calm => rx.count = 0
    /\ \E r \in Outcomes(RunMasked, t) :
          main' = r.t /\ Commit([r.g EXCEPT !.trail = Since(t.op, @)])
    /\ UNCHANGED rx

\* the main context executes the statement it is at
Advance ==
    /\ Running
    /\ \E r \in Outcomes(RunMasked, main) : main' = r.t /\ Commit(r.g)
    /\ UNCHANGED <<rx, budget>>

loop_call ==
    /\ Begin([Entry("loop", "LP_stat")
                EXCEPT !.due = obs.hdr_val, !.pre0 = budget.preempt])
    /\ UNCHANGED budget
PullMsgToInterpret_call ==
    /\ Begin([Entry("PullMsgToInterpret", "PI_chk")
                EXCEPT !.pre0 = budget.preempt, !.drop0 = mem_stat.msg_drop_number])
    /\ UNCHANGED budget
LuosTaskAlloc_call ==
    /\ obs.interp # NULL /\ budget.alloc > 0
    /\ \E c \in budget.conts :
          Begin([Entry("LuosTaskAlloc", "LA_chk")
                   EXCEPT !.cont = c, !.msg = obs.interp,
                          !.full = luos_tasks_stack_id = MAX_MSG_NB,
                          !.drop0 = mem_stat.msg_drop_number, !.old = luos_tasks,
                          !.pre0 = budget.preempt])
    /\ budget' = [budget EXCEPT !.alloc = @ - 1]
PullMsg_call ==
    /\ \E c \in budget.conts :
          Begin([Entry("PullMsg", "PM_test")
                   EXCEPT !.cont = c, !.old = luos_tasks, !.oldid = luos_tasks_stack_id,
                          !.used0 = used_msg, !.pre0 = budget.preempt])
    /\ UNCHANGED budget
PullMsgFromLuosTask_call ==
    /\ \E i \in Slots :
          Begin([Entry("PullMsgFromLuosTask", "PL_chk")
                   EXCEPT !.i = i, !.old = luos_tasks, !.oldid = luos_tasks_stack_id,
                          !.used0 = used_msg, !.pre0 = budget.preempt])
    /\ UNCHANGED budget
ClearMsgFromLuosTasks_call ==
    /\ \E i \in ValidLuosTasks(G) :
          Begin([Entry("ClearMsgFromLuosTasks", "CF_test")
                   EXCEPT !.msg = luos_tasks[i].msg_pt, !.old = luos_tasks,
                          !.oldid = luos_tasks_stack_id,
                          !.drop0 = mem_stat.msg_drop_number,
                          !.pre0 = budget.preempt])
    /\ UNCHANGED budget
\* an accessor called on slot i
Inspect(op, pc) ==
    /\ \E i \in Slots :
          Begin([Entry(op, pc)
                   EXCEPT !.i = i, !.old = luos_tasks, !.oldid = luos_tasks_stack_id,
                          !.used0 = used_msg, !.drop0 = mem_stat.msg_drop_number,
                          !.pre0 = budget.preempt])
    /\ UNCHANGED budget
LookAtLuosTask_call == Inspect("LookAtLuosTask", "LK_chk")
GetLuosTaskCmd_call == Inspect("GetLuosTaskCmd", "GC_chk")
GetLuosTaskSourceId_call == Inspect("GetLuosTaskSourceId", "GS_chk")
GetLuosTaskSize_call == Inspect("GetLuosTaskSize", "GZ_chk")
UsedMsgEnd_call ==
    /\ used_msg # NULL
    /\ Begin(Entry("UsedMsgEnd", "UE"))
    /\ UNCHANGED budget
SetMessage_call ==
    /\ budget.local > 0
    /\ \E sz \in LocalSizes :
          Begin([Entry("SetMessage", "SM_size")
                   EXCEPT !.size = sz, !.byte = LocalByte, !.pre0 = budget.preempt,
                          !.prog = data_ptr - current_msg])
    /\ budget' = [budget EXCEPT !.local = @ - 1]
SetTxTask_call ==
    /\ budget.tx > 0
    /\ \E sz \in budget.txs :
          Begin([Entry("SetTxTask", "TX_assert")
                   EXCEPT !.size = sz,
                          !.full = tx_tasks_stack_id = MAX_MSG_NB - 1,
                          !.drop0 = mem_stat.msg_drop_number, !.old = tx_tasks,
                          !.pre0 = budget.preempt,
                          !.bytes0 = IF RangeInBuffer(current_msg, data_ptr - current_msg)
                                     THEN LoadBytes(G, current_msg, data_ptr - current_msg)
                                     ELSE <<>>])
    /\ budget' = [budget EXCEPT !.tx = @ - 1]
PullMsgFromTxTask_call ==
    /\ tx_tasks_stack_id > 0
    /\ Begin(Entry("PullMsgFromTxTask", "PT_assert"))
    /\ UNCHANGED budget
GetTxTask_call == Begin(Entry("GetTxTask", "GT")) /\ UNCHANGED budget
IsEmpty_call == Begin(Entry("IsEmpty", "IE")) /\ UNCHANGED budget
MsgAlloc_Init_call ==
    /\ budget.init > 0
    /\ Begin(Entry("Init", "IN_cur"))
    /\ budget' = [budget EXCEPT !.init = @ - 1]

MainCall ==
    \/ loop_call \/ PullMsgToInterpret_call \/ LuosTaskAlloc_call \/ PullMsg_call
    \/ PullMsgFromLuosTask_call \/ ClearMsgFromLuosTasks_call \/ UsedMsgEnd_call
    \/ SetMessage_call \/ SetTxTask_call \/ PullMsgFromTxTask_call
    \/ GetTxTask_call \/ IsEmpty_call \/ MsgAlloc_Init_call
    \/ LookAtLuosTask_call \/ GetLuosTaskCmd_call \/ GetLuosTaskSourceId_call
    \/ GetLuosTaskSize_call

ClearMsgTask_step == main.pc \in CMT_pcs /\ Advance
ClearLuosTask_step == main.pc \in CLT_pcs /\ Advance
ClearMsgSpace_step == main.pc \in CMS_pcs /\ Advance
EndMsg_step == main.pc \in EM_pcs /\ Advance
SetMessage_step == main.pc \in SM_pcs /\ Advance
loop_step == main.pc \in LP_pcs /\ Advance
PullMsgToInterpret_step == main.pc \in PI_pcs /\ Advance
LuosTaskAlloc_step == main.pc \in LA_pcs /\ Advance
PullMsg_step == main.pc \in PM_pcs /\ Advance
PullMsgFromLuosTask_step == main.pc \in PL_pcs /\ Advance
ClearMsgFromLuosTasks_step == main.pc \in CF_pcs /\ Advance
PullMsgFromTxTask_step == main.pc \in PT_pcs /\ Advance
SetTxTask_step == main.pc \in TX_pcs /\ Advance
MsgAlloc_Init_step == main.pc \in IN_pcs /\ Advance
Accessor_step == main.pc \in AC_pcs /\ Advance

MainStep ==
    \/ ClearMsgTask_step \/ ClearLuosTask_step \/ ClearMsgSpace_step \/ EndMsg_step
    \/ SetMessage_step \/ loop_step \/ PullMsgToInterpret_step \/ LuosTaskAlloc_step
    \/ PullMsg_step \/ PullMsgFromLuosTask_step \/ ClearMsgFromLuosTasks_step
    \/ PullMsgFromTxTask_step \/ SetTxTask_step \/ MsgAlloc_Init_step
    \/ Accessor_step

\* the call returns to the main loop
MainReturn ==
    /\ Running /\ main.pc = "done"
    /\ main' = Idle
    /\ UNCHANGED <<msg_buffer, current_msg, data_ptr, data_end_estimation,
                   copy_task_pointer, msg_tasks, msg_tasks_stack_id, used_msg,
                   luos_tasks, luos_tasks_stack_id, tx_tasks, tx_tasks_stack_id,
                   mem_stat, irq, halted, rx, budget, obs>>

Next == IsrNext \/ MainCall \/ MainStep \/ MainReturn

Spec == Init /\ [][Next]_vars

\* ---------------------------------------------------------------- claims
Pulls == {"PullMsgToInterpret", "PullMsg", "PullMsgFromLuosTask"}
\* a call of the main context has just returned
Returned(ops) == main.pc = "done" /\ main.op \in ops
Returns(ops, ret) == Returned(ops) /\ main.ret = ret

\* C1: under any interleaving of the interrupt handlers with the main
\* context, no pull returns a frame of which a byte was overwritten by
\* reception or staging since the frame was pushed
C1_NoOverwrittenPull == Returns(Pulls, "SUCCEED") => ~main.ret_dirty

\* C2: whenever ClearMsgSpace(from, to) returns SUCCEED, no valid entry of
\* MsgTasks or LuosTasks, at any index, points into [from, to]
C2_ClearedRangeHasNoEntry == ~obs.cms_missed

\* no call of the main context is in progress (interrupt handlers are atomic)
Quiescent == main.pc \in {"idle", "done"}

\* C3: after every completed operation the reception cursor satisfies
\* current_msg <= data_ptr <= data_end_estimation <= buffer + MSG_BUFFER_SIZE
C3_CursorOrdered ==
    Quiescent =>
        /\ current_msg <= data_ptr
        /\ data_ptr <= data_end_estimation
        /\ data_end_estimation <= BufEnd

\* n is a legal stack_id and the number of slots in use
Counts(used, n) == n \in 0 .. MAX_MSG_NB /\ Cardinality({i \in Slots : used[i]}) = n

\* C4: in every reachable state each stack_id is within 0 .. MAX_MSG_NB and
\* equals the number of entries of its stack that hold a pointer
C4_StackIdsCountEntries ==
    /\ Counts([i \in Slots |-> msg_tasks[i] # NULL], msg_tasks_stack_id)
    /\ Counts([i \in Slots |-> luos_tasks[i].msg_pt # NULL], luos_tasks_stack_id)
    /\ Counts([i \in Slots |-> tx_tasks[i].data_pt # NULL], tx_tasks_stack_id)

\* C5: in every reachable state every valid entry (index < stack_id) of
\* MsgTasks, LuosTasks and TxTasks holds an address inside msg_buffer
C5_EntriesInBuffer ==
    /\ \A i \in ValidMsgTasks(G) : InBuffer(msg_tasks[i])
    /\ \A i \in ValidLuosTasks(G) : InBuffer(luos_tasks[i].msg_pt)
    /\ \A i \in ValidTxTasks(G) : InBuffer(tx_tasks[i].data_pt)

\* C6: on each of the three stacks, as long as no eviction has occurred, the
\* Nth pull returns the Nth pushed entry
C6_PullsInPushOrder == main.pc = "done" => ~main.fifo_bad

\* a frame was pulled for interpretation, in push order, while a later frame
\* was queued behind it and nothing had been evicted
C6_PulledWithOneBehind ==
    /\ Returns({"PullMsgToInterpret"}, "SUCCEED")
    /\ ~obs.ev_msg /\ obs.exp_msg # <<>>
    /\ msg_tasks_stack_id > 0 /\ msg_tasks[0] = Head(obs.exp_msg)

\* no valid MsgTasks entry from index `first` on, no valid LuosTasks entry and
\* no message in use points into [from, to]
NothingIn(first, from, to) ==
    /\ \A i \in ValidMsgTasks(G) : i >= first => ~InRange(msg_tasks[i], from, to)
    /\ \A i \in ValidLuosTasks(G) : ~InRange(luos_tasks[i].msg_pt, from, to)
    /\ ~InRange(used_msg, from, to)
\* EndMsg runs while MsgTasks is full and nothing overlaps the frame it ends
EndMsgOnFull ==
    /\ Isr_EndMsg
    /\ msg_tasks_stack_id = MAX_MSG_NB
    /\ NothingIn(0, current_msg, data_ptr)
\* the zone EndMsg clears for the header of the next frame holds none of the
\* entries that remain
LandingFree ==
    NothingIn(1, current_msg', current_msg' + HEADER_SIZE + CRC_SIZE)
\* exactly the oldest entry is evicted, the ended frame becomes the last entry
\* and one drop is counted
EvictsOldestOnly ==
    /\ msg_tasks_stack_id' = MAX_MSG_NB
    /\ \A i \in Slots : i + 1 < MAX_MSG_NB => msg_tasks'[i] = msg_tasks[i + 1]
    /\ msg_tasks'[MAX_MSG_NB - 1] = current_msg
    /\ mem_stat'.msg_drop_number = Min(mem_stat.msg_drop_number + 1, DROP_MAX)

C8_FullAllocEvictsAndCounts ==
    Returned({"LuosTaskAlloc"}) /\ main.full =>
        /\ luos_tasks_stack_id = MAX_MSG_NB
        /\ \A i \in Slots : i + 1 < MAX_MSG_NB => luos_tasks[i] = main.old[i + 1]
        /\ luos_tasks[MAX_MSG_NB - 1] = [msg_pt |-> main.msg, ll_container_pt |-> main.cont]
        /\ mem_stat.msg_drop_number = Min(main.drop0 + 1, DROP_MAX)

\* C9: when the push of SetTxTask brings TxTasks to MAX_MSG_NB entries, no
\* assertion fails, and when the call returns the oldest entry is removed,
\* the staged entry is the last one and msg_drop_number is incremented by one
C9_TxOverflowDropsOldest ==
    main.op = "SetTxTask" /\ main.full =>
        /\ halted # "assert"
        /\ main.pc = "done" =>
              /\ tx_tasks_stack_id = MAX_MSG_NB - 1
              /\ \A i \in Slots : i + 2 < MAX_MSG_NB => tx_tasks[i] = main.old[i + 1]
              /\ tx_tasks[MAX_MSG_NB - 2] = [data_pt |-> main.tx_msg, size |-> main.size]
              /\ mem_stat.msg_drop_number = Min(main.drop0 + 1, DROP_MAX)

\* C10: the SetTxTask call that stages the MAX_MSG_NB-th entry of TxTasks
\* completes and leaves MAX_MSG_NB entries queued, evicts nothing and leaves
\* msg_drop_number unchanged
C10_TxHoldsMaxEntries ==
    main.op = "SetTxTask" /\ main.full =>
        /\ halted = "none"
        /\ main.pc = "done" =>
              /\ tx_tasks_stack_id = MAX_MSG_NB
              /\ \A i \in Slots : i + 1 < MAX_MSG_NB => tx_tasks[i] = main.old[i]
              /\ mem_stat.msg_drop_number = main.drop0

\* C11: across every step of every operation, a repeated Init included,
\* msg_drop_number never decreases, never exceeds 255, and once it equals 255
\* it stays 255
C11_DropCounterSaturates ==
    [][/\ mem_stat.msg_drop_number <= DROP_MAX
       /\ mem_stat'.msg_drop_number <= DROP_MAX
       /\ mem_stat'.msg_drop_number >= mem_stat.msg_drop_number
       /\ mem_stat.msg_drop_number = DROP_MAX
             => mem_stat'.msg_drop_number = DROP_MAX]_vars

\* the counter went from 254 to 255, a further drop left it at 255, and the
\* allocator was then initialised again
C11_SaturatedThenInit ==
    /\ budget.drops = DROP_MAX - 1 /\ obs.sated
    /\ mem_stat.msg_drop_number = DROP_MAX
    /\ Returned({"Init"})

Larger(a, b) == IF a > b THEN a ELSE b
\* neither watermark decreases in the step, and neither exceeds 100
WatermarksGrow ==
    /\ mem_stat'.msg_stack_ratio >= mem_stat.msg_stack_ratio
    /\ mem_stat'.luos_stack_ratio >= mem_stat.luos_stack_ratio
    /\ mem_stat'.msg_stack_ratio <= 100 /\ mem_stat'.luos_stack_ratio <= 100
\* MsgAlloc_loop computes 100 * msg_tasks_stack_id / MAX_MSG_NB, then stores the
\* larger of it and the previous watermark
LoopSetsWatermark ==
    /\ loop_call => main'.stat = (100 * msg_tasks_stack_id) \div MAX_MSG_NB
    /\ loop_step /\ main.pc = "LP_cmp" =>
          mem_stat'.msg_stack_ratio = Larger(mem_stat.msg_stack_ratio, main.stat)
\* LuosTaskAlloc does the same with luos_tasks_stack_id, read after the push
AllocSetsWatermark ==
    /\ LuosTaskAlloc_step /\ main.pc = "LA_inc" =>
          luos_tasks_stack_id' = luos_tasks_stack_id + 1 /\ main'.pc = "LA_stat"
    /\ LuosTaskAlloc_step /\ main.pc = "LA_stat" =>
          main'.stat = (100 * luos_tasks_stack_id) \div MAX_MSG_NB
    /\ LuosTaskAlloc_step /\ main.pc = "LA_cmp" =>
          mem_stat'.luos_stack_ratio = Larger(mem_stat.luos_stack_ratio, main.stat)

\* C12: msg_stack_ratio and luos_stack_ratio never decrease and never exceed
\* 100; each MsgAlloc_loop tick sets msg_stack_ratio to the larger of its
\* previous value and 100 * msg_tasks_stack_id / MAX_MSG_NB, and each
\* LuosTaskAlloc does so for luos_stack_ratio with the occupancy after its push
C12_WatermarksAreMaxima ==
    [][WatermarksGrow /\ LoopSetsWatermark /\ AllocSetsWatermark]_vars

\* LuosTasks was filled (watermark 100), and the MsgTasks watermark kept the
\* value of an earlier tick although the stack is empty again
C12_WatermarksKept ==
    /\ Returned({"LuosTaskAlloc"})
    /\ mem_stat.luos_stack_ratio = 100
    /\ mem_stat.msg_stack_ratio > 0 /\ msg_tasks_stack_id = 0

\* the frame at p was received from the bus, or posted with SetMessage
Received(p) == obs.frame_val[p] \in 1 .. RxByteMax
Posted(p) == obs.frame_val[p] = LocalByte
\* the pull finds the frame that was pushed onto the empty MsgTasks
PullsFirst ==
    Returned({"PullMsgToInterpret"}) =>
        /\ main.ret = "FAILED" => ~main.ret_first
        /\ main.ret = "SUCCEED" => InBuffer(main.ret_msg)

\* C13: a well-formed frame received through SetData, ValidHeader(true, size)
\* and EndMsg while MsgTasks was empty is returned by the next
\* PullMsgToInterpret, and the bytes at the returned pointer are the header and
\* payload of the frame, also when ValidHeader wrapped it to the buffer start
C13_ReceivedFramePulledEqual ==
    /\ PullsFirst
    /\ Returns({"PullMsgToInterpret"}, "SUCCEED") /\ main.ret_first
          /\ Received(main.ret_msg) => main.ret_equal

\* C14: SetMessage(F) while MsgTasks is empty, then PullMsgToInterpret, returns
\* a pointer whose header and payload bytes are those of F, also when the
\* interrupt handlers run between SetMessage and the pull
C14_PostedFramePulledEqual ==
    Returns({"PullMsgToInterpret"}, "SUCCEED") /\ main.ret_first
        /\ Posted(main.ret_msg) => main.ret_equal

\* no interrupt handler ran since the main context entered the call
Unpreempted == budget.preempt = main.pre0
\* the entries for endpoint c on the stack the call found
Matching(c) == {i \in Slots : i < main.oldid /\ main.old[i].ll_container_pt = c}
Oldest(S) == CHOOSE i \in S : \A j \in S : i <= j
\* the call removed entry k of the stack it found, returned its message and
\* made it the message in use; the other entries keep their order
Removed(k) ==
    /\ main.ret = "SUCCEED"
    /\ main.ret_msg = main.old[k].msg_pt /\ used_msg = main.ret_msg
    /\ luos_tasks_stack_id = main.oldid - 1
    /\ \A j \in Slots : j < main.oldid - 1 =>
          luos_tasks[j] = IF j < k THEN main.old[j] ELSE main.old[j + 1]
\* the call failed and changed neither LuosTasks nor used_msg
FailedUnchanged ==
    /\ main.ret = "FAILED"
    /\ luos_tasks = main.old /\ luos_tasks_stack_id = main.oldid
    /\ used_msg = main.used0

\* C15: LuosTaskAlloc(endpoint, F) leaves (F, endpoint) as last entry;
\* PullMsg(endpoint) on a stack holding one entry for the endpoint returns
\* SUCCEED with its message; PullMsg(endpoint) on a stack holding no entry for
\* the endpoint returns FAILED and leaves LuosTasks and used_msg unchanged
\* (no interrupt handler running during the calls)
C15_AllocThenPullOnce ==
    /\ Returned({"LuosTaskAlloc"}) /\ Unpreempted =>
          /\ luos_tasks_stack_id \in 1 .. MAX_MSG_NB
          /\ luos_tasks[luos_tasks_stack_id - 1]
                = [msg_pt |-> main.msg, ll_container_pt |-> main.cont]
    /\ Returned({"PullMsg"}) /\ Unpreempted =>
          /\ Cardinality(Matching(main.cont)) = 1 =>
                /\ main.ret = "SUCCEED"
                /\ main.ret_msg = main.old[Oldest(Matching(main.cont))].msg_pt
                /\ \A i \in ValidLuosTasks(G) : luos_tasks[i].ll_container_pt # main.cont
          /\ Matching(main.cont) = {} => FailedUnchanged

\* an endpoint's only message was pulled after others were allocated
C15_PulledTheOnlyOne ==
    /\ Returns({"PullMsg"}, "SUCCEED") /\ Unpreempted
    /\ Cardinality(Matching(main.cont)) = 1 /\ main.oldid > 1
\* a pull for an endpoint without entry failed on a stack that is not empty
C15_SecondPullFailed ==
    /\ Returns({"PullMsg"}, "FAILED") /\ Unpreempted
    /\ main.oldid > 0 /\ used_msg # NULL

\* C16: PullMsg(endpoint) on a stack holding several entries for the endpoint
\* returns the one of lowest index, makes it used_msg, removes exactly that
\* entry and keeps the others in order; PullMsgFromLuosTask(i) with
\* i < luos_tasks_stack_id does the same for entry i
\* (no interrupt handler running during the call)
C16_PullRemovesOldestMatch ==
    /\ Returned({"PullMsg"}) /\ Unpreempted /\ Matching(main.cont) # {} =>
          Removed(Oldest(Matching(main.cont)))
    /\ Returned({"PullMsgFromLuosTask"}) /\ Unpreempted /\ main.i < main.oldid =>
          Removed(main.i)

\* a pull by endpoint took the older of two entries of the endpoint from
\* behind an entry of another endpoint
C16_PulledFromTheMiddle ==
    /\ Returns({"PullMsg"}, "SUCCEED") /\ Unpreempted
    /\ Cardinality(Matching(main.cont)) > 1
    /\ Oldest(Matching(main.cont)) > 0

\* the call of ValidHeader(true, s) this step makes finds that the frame
\* would end past the last byte of msg_buffer
Wraps ==
    /\ Isr_ValidHeader /\ rx'.hdr = "valid"
    /\ ~DoWeHaveSpace(FrameEnd(current_msg, rx'.size))
\* the first half of C17 (every step of the model satisfies it)
WrapMovesCursor ==
    Wraps => /\ copy_task_pointer' = current_msg
             /\ current_msg' = BufStart
             /\ data_ptr' = BufStart + HEADER_SIZE
             /\ data_end_estimation' = BufStart + HEADER_SIZE + rx'.size + CRC_SIZE
WrapAlwaysMovesCursor == [][WrapMovesCursor]_vars

\* C17: ValidHeader(true, s) on a frame that would end past the last buffer
\* byte sets copy_task_pointer to the old current_msg, current_msg to the
\* buffer start, data_ptr behind the header and data_end_estimation to the
\* frame's end there (WrapMovesCursor); when a tick of MsgAlloc_loop that
\* began with that header copy pending has returned, the first
\* sizeof(header_t) bytes of the buffer are the header received at the old
\* location and copy_task_pointer is null
C17_WrapThenLoopCopiesHeader ==
    Returned({"loop"}) /\ main.due # 0 =>
        main.ret_equal /\ (Unpreempted => copy_task_pointer = NULL)

\* C18: at most one header copy is pending and none is lost: under any
\* interleaving of the interrupt handlers with the main loop, ValidHeader
\* arms copy_task_pointer only when it is null
C18_ArmsOnlyWhenNull == [][Wraps => copy_task_pointer = NULL]_vars

\* the range ValidHeader(true, s) prepares, after the wrap if there is one
HeaderRange == [from |-> current_msg', to |-> FrameEnd(current_msg', rx'.size)]
\* ValidHeader drops the message in use exactly if it lies in that range
HeaderDropsUsed ==
    Isr_ValidHeader /\ rx'.hdr = "valid" =>
        IF used_msg # NULL /\ InRange(used_msg, HeaderRange.from, HeaderRange.to)
        THEN /\ used_msg' = NULL
             /\ mem_stat'.msg_drop_number
                  = IF mem_stat.msg_drop_number < DROP_MAX
                    THEN mem_stat.msg_drop_number + 1 ELSE DROP_MAX
        ELSE /\ used_msg' = used_msg
             /\ mem_stat'.msg_drop_number = mem_stat.msg_drop_number

\* C19: a non-null used_msg that lies in the range a reception or a staging
\* is about to use (the range of ValidHeader after the wrap, or the range
\* [from, to] given to ClearMsgSpace) is set to null and counted as one drop
\* (below 255); otherwise neither changes on account of used_msg
C19_UsedMsgInRangeDropped == [][HeaderDropsUsed /\ ~obs'.used_missed]_vars

\* SetTxTask has returned, no interrupt handler ran during the call, and a
\* reception was in flight when it was called (main.prog: the k bytes
\* received, main.est: data_end_estimation - current_msg, main.bytes0: the
\* bytes themselves)
StagedDuringReception ==
    Returned({"SetTxTask"}) /\ Unpreempted /\ main.prog > 0 /\ rx.count = main.prog
ReceptionMoved ==
    /\ RangeInBuffer(current_msg, main.prog)
    /\ LoadBytes(G, current_msg, main.prog) = main.bytes0
    /\ data_ptr - current_msg = main.prog
    /\ data_end_estimation - current_msg = main.est
TxStaged ==
    /\ tx_tasks_stack_id > 0
    /\ tx_tasks[tx_tasks_stack_id - 1] = [data_pt |-> main.tx_msg, size |-> main.size]
    /\ \A a \in main.tx_msg .. (main.tx_msg + main.size - 1) :
          a \in Addr /\ msg_buffer[a] = TxByte

\* C20: after SetTxTask(data, size), called with k bytes of a reception in
\* flight, has returned, the k bytes are unchanged at the new current_msg,
\* data_ptr - current_msg is k, data_end_estimation - current_msg is what it
\* was, and the newest TxTasks entry is (tx_msg, size) with the size bytes
\* of data stored at tx_msg
C20_TxKeepsReception == StagedDuringReception => ReceptionMoved /\ TxStaged

\* the entries of LuosTasks, oldest first, when the call began and now
LuosBefore == [k \in 1 .. main.oldid |-> main.old[k - 1]]
LuosNow == [k \in 1 .. luos_tasks_stack_id |-> luos_tasks[k - 1]]

ReceptionOnly == budget.api \cap {"SetTxTask", "SetMessage", "Init"} = {}
\* the bytes of the k-th frame finalised since Init (header and payload)
FrameBytes(k) == {a \in Addr : obs.rxlog[k] <= a /\ a < obs.frame_end[obs.rxlog[k]]}
\* at most MAX_MSG_NB frames were received, each inside the buffer, no two
\* sharing a byte
FramesFit ==
    /\ Len(obs.rxlog) <= MAX_MSG_NB
    /\ \A k \in 1 .. Len(obs.rxlog) :
          /\ InBuffer(obs.rxlog[k])
          /\ obs.frame_end[obs.rxlog[k]] <= BufEnd
          /\ \A j \in 1 .. (k - 1) : FrameBytes(j) \cap FrameBytes(k) = {}
AllFramesPending ==
    ReceptionOnly /\ FramesFit /\ obs.pulls = 0 =>
        /\ msg_tasks_stack_id = Len(obs.rxlog)
        /\ mem_stat.msg_drop_number = 0
AsManyPullsAsFrames ==
    ReceptionOnly /\ FramesFit /\ Returned({"PullMsgToInterpret"}) /\ Unpreempted =>
        /\ main.ret = "SUCCEED" => obs.pulls <= Len(obs.rxlog)
        /\ main.ret = "FAILED" => obs.pulls = Len(obs.rxlog)
FailedPullChangesNothing ==
    PullMsgToInterpret_call /\ main'.ret = "FAILED" =>
        UNCHANGED <<msg_buffer, current_msg, data_ptr, data_end_estimation,
                    copy_task_pointer, msg_tasks, msg_tasks_stack_id, used_msg,
                    luos_tasks, luos_tasks_stack_id, tx_tasks, tx_tasks_stack_id,
                    mem_stat, irq>>

\* C22: after k <= MAX_MSG_NB frames that fit in the buffer without
\* overlapping were received on an empty allocator, msg_tasks_stack_id is k
\* and msg_drop_number is unchanged; exactly k calls of PullMsgToInterpret
\* succeed, and a further call returns FAILED and changes nothing
C22_FittingFramesAllPulled ==
    [][AllFramesPending' /\ AsManyPullsAsFrames' /\ FailedPullChangesNothing]_vars

\* C23: an entry LuosTaskAlloc created is returned by at most one successful
\* PullMsg / PullMsgFromLuosTask, and an entry of MsgTasks by at most one
\* successful PullMsgToInterpret, whatever the interrupt handlers do during
\* the pull (main.twice: the entry returned had been returned before)
C23_EntryPulledOnce == Returns(Pulls, "SUCCEED") => ~main.twice

\* C24: called right after MsgAlloc_Init, MsgAlloc_IsEmpty returns SUCCEED;
\* called after MsgAlloc_Init and exactly one MsgAlloc_SetData, it returns FAILED
C24_EmptyUntilFirstByte ==
    Returned({"IsEmpty"}) =>
        /\ obs.trail = "init" => main.ret = "SUCCEED"
        /\ obs.trail = "byte" => main.ret = "FAILED"
\* the application restarted the allocator, one byte came, IsEmpty said FAILED
C24_RestartedThenOneByte ==
    /\ Returns({"IsEmpty"}, "FAILED") /\ obs.trail = "byte"
    /\ budget.init < OneInit /\ budget.drops > 0

\* C25: MsgAlloc_IsEmpty returns SUCCEED only when no frame was finalised (by
\* EndMsg, for the bus or for SetMessage) since the last MsgAlloc_Init, also
\* after the cursor went back to the start of the buffer
C25_EmptyOnlyBeforeFirstFrame ==
    Returns({"IsEmpty"}, "SUCCEED") => obs.rxlog = <<>>

\* C26: LookAtLuosTask(i), GetLuosTaskCmd(i), GetLuosTaskSourceId(i) and
\* GetLuosTaskSize(i) return FAILED when i >= luos_tasks_stack_id, and SUCCEED
\* with the field of entry i when i < luos_tasks_stack_id; they leave
\* luos_tasks, luos_tasks_stack_id, used_msg and msg_drop_number as they were
FieldOf(op, e) ==
    CASE op = "LookAtLuosTask" -> e.ll_container_pt
      [] op = "GetLuosTaskCmd" -> HeaderField(G, e.msg_pt, "cmd")
      [] op = "GetLuosTaskSourceId" -> HeaderField(G, e.msg_pt, "source")
      [] op = "GetLuosTaskSize" -> HeaderField(G, e.msg_pt, "size")
C26_AccessorsReadOnly ==
    Returned(Accessors) /\ Unpreempted =>
        /\ main.ret = (IF main.i < main.oldid THEN "SUCCEED" ELSE "FAILED")
        /\ main.ret = "SUCCEED" => main.out = FieldOf(main.op, main.old[main.i])
        /\ luos_tasks = main.old /\ luos_tasks_stack_id = main.oldid
        /\ used_msg = main.used0 /\ mem_stat.msg_drop_number = main.drop0
\* the command of the second pending delivery was read, and it is not that
\* of the first
C26_ReadSecondEntry ==
    /\ Returns({"GetLuosTaskCmd"}, "SUCCEED") /\ Unpreempted /\ main.i = 1
    /\ main.out # HeaderField(G, luos_tasks[0].msg_pt, "cmd")

\* C27: the statements that shift an entry of a task stack to the left (in
\* ClearMsgTask, ClearLuosTask and PullMsgFromTxTask) run with interrupts
\* masked: the main context is never at such a statement with interrupts enabled
C27_SlidesRunMasked ==
    main.pc \in {"CMT_move", "CLT_move", "PT_slide"} => ~irq

\* the main context is at one of the statements pcs, or in a call made from
\* the statement before one of them
OnStack(pcs) == main.pc \in pcs \/ \E k \in 1 .. Len(main.stk) : main.stk[k] \in pcs
\* SetTxTask has masked the interrupts and has not yet moved all of
\* current_msg, data_ptr and data_end_estimation
TxRelocating ==
    /\ main.op = "SetTxTask"
    /\ OnStack({"TX_prog", "TX_chk1", "TX_b1_dptr", "TX_b1_est", "TX_chk2", "TX_b2_cur",
                "TX_b2_est", "TX_b2_clear", "TX_b3_est", "TX_b3_clear", "TX_dptr"})
\* SetMessage has masked the interrupts and the cursor is not yet behind the
\* posted message
LocalRelocating ==
    /\ main.op = "SetMessage"
    /\ \/ OnStack({"SM_space", "SM_clear", "SM_bkp", "SM_fake"})
       \/ OnStack({"EM_clear", "EM_full", "EM_full_drop", "EM_assert", "EM_push",
                   "EM_inc", "EM_sub", "EM_wrap", "EM_cur", "EM_est"})
\* C28: in SetTxTask and in SetMessage interrupts stay masked until
\* current_msg, data_ptr and data_end_estimation are all relocated, also when
\* the eviction called in between removes entries
C28_RelocationMasked ==
    TxRelocating \/ LocalRelocating => ~irq

\* the first n slots hold n different entries (tags tell the pushes apart,
\* 0 for a slot that holds none)
Distinct(tags, n) ==
    \A i, j \in Slots : i < n /\ j < n /\ i # j => tags[i] # 0 /\ tags[i] # tags[j]
\* C29: whenever interrupts are enabled during a pull of the main context,
\* MsgTasks shows no entry twice and holds as many entries as its stack_id
\* says: an interrupt handler never sees the stack in the middle of a slide
C29_NoSlideObserved ==
    main.op \in Pulls /\ main.pc \notin {"idle", "done"} /\ irq =>
        Distinct(obs.mtag, msg_tasks_stack_id)

\* the offset of address a in msg_buffer is even
EvenAligned(a) == (a - BufStart) % 2 = 0
\* C30: EndMsg leaves current_msg at the start of the buffer when fewer than
\* sizeof(header_t) + 2 bytes remain behind the frame, and otherwise at an
\* even-aligned address at or after the end of the frame (its CRC removed),
\* whatever bytes the buffer holds
C30_NextFrameAligned ==
    [][Isr_EndMsg /\ halted' = "none" =>
          IF ~DoWeHaveSpace(data_ptr - CRC_SIZE + HEADER_SIZE + CRC_SIZE)
          THEN current_msg' = BufStart
          ELSE EvenAligned(current_msg') /\ current_msg' >= data_ptr - CRC_SIZE]_vars

\* ------------------------------------------------------------------
\* C31: no LUOS_ASSERT of the allocator fails, whatever the interrupt
\* handlers and the application do in the order the contract allows
C31_NoAssertFails == halted # "assert"

\* the drop counter after n more drops
Counted(n) == IF mem_stat.msg_drop_number + n > DROP_MAX THEN DROP_MAX
              ELSE mem_stat.msg_drop_number + n
\* C32: InvalidMsg leaves current_msg where it was, resets data_ptr to it
\* and data_end_estimation to the end of an empty frame, pushes nothing,
\* leaves no head entry (nor used_msg) in [current_msg, old data_ptr],
\* counts each eviction, and clears copy_task_pointer exactly when
\* current_msg is the start of the buffer
C32_InvalidMsgAbandons ==
    [][Isr_InvalidMsg /\ halted' = "none" =>
          /\ current_msg' = current_msg
          /\ data_ptr' = current_msg
          /\ data_end_estimation' = current_msg + HEADER_SIZE + CRC_SIZE
          /\ msg_tasks_stack_id' <= msg_tasks_stack_id
          /\ ~(msg_tasks_stack_id' > 0 /\ InRange(msg_tasks'[0], current_msg, data_ptr))
          /\ ~(luos_tasks_stack_id' > 0
               /\ InRange(luos_tasks'[0].msg_pt, current_msg, data_ptr))
          /\ mem_stat'.msg_drop_number =
                Counted((msg_tasks_stack_id - msg_tasks_stack_id')
                        + (luos_tasks_stack_id - luos_tasks_stack_id')
                        + (IF used_msg' # used_msg THEN 1 ELSE 0))
          /\ copy_task_pointer' =
                (IF current_msg = BufStart THEN NULL ELSE copy_task_pointer)]_vars

\* C33: ValidHeader(false, size) resets data_ptr to current_msg and changes
\* nothing else of the allocator
C33_InvalidHeaderDiscards ==
    [][Isr_ValidHeader /\ rx'.hdr = "none" /\ halted' = "none" =>
          /\ data_ptr' = current_msg
          /\ UNCHANGED <<current_msg, data_end_estimation, copy_task_pointer, used_msg,
                         msg_tasks, msg_tasks_stack_id, luos_tasks, luos_tasks_stack_id,
                         tx_tasks, tx_tasks_stack_id, mem_stat, msg_buffer>>]_vars
\* a header was discarded in place after both of its bytes had been stored
C33_DiscardedAfterHeader ==
    /\ rx.count = 0 /\ data_ptr = current_msg /\ obs.trail = "more"
    /\ obs.rxlog = <<>> /\ mem_stat.msg_drop_number = 0
    /\ \A a \in Addr : msg_buffer[a] # 0 <=> a < current_msg + HEADER_SIZE

\* C34: every frame staged in TxTasks holds the bytes SetTxTask stored
\* (TxByte) for as long as its entry is valid: no reception, SetMessage or
\* later SetTxTask writes into it
C34_TxFramesIntact ==
    main.op # "SetTxTask" =>
        \A i \in ValidTxTasks(G) :
            \A a \in Addr :
                tx_tasks[i].data_pt <= a /\ a < tx_tasks[i].data_pt + tx_tasks[i].size
                    => msg_buffer[a] = TxByte

\* C35: whenever a header copy is pending (copy_task_pointer is not null),
\* current_msg is the start of the buffer, where MsgAlloc_loop will write
\* the header
C35_PendingCopyAtStart == copy_task_pointer # NULL => current_msg = BufStart

C37_PushedFrameStays ==
    [][Isr_EndMsg /\ halted' = "none" =>
          /\ msg_tasks_stack_id' > 0
          /\ msg_tasks_stack_id' - 1 \in Slots
          /\ msg_tasks'[msg_tasks_stack_id' - 1] = current_msg]_vars

\* C38: after SetMessage, called with k bytes of a reception in flight
\* (main.prog), has returned, the k bytes are found at the new current_msg
\* and data_ptr - current_msg is still k
C38_LocalKeepsReception ==
    Returned({"SetMessage"}) /\ Unpreempted /\ main.prog > 0 /\ rx.count = main.prog =>
        /\ data_ptr - current_msg = main.prog
        /\ \A a \in current_msg .. (current_msg + main.prog - 1) :
              a \in Addr /\ msg_buffer[a] = rx.byte

\* C39: every read and write of msg_tasks, luos_tasks and tx_tasks uses an
\* index below MAX_MSG_NB (obs.oob_index: some statement used another one)
C39_IndexesInRange == ~obs.oob_index

\* C40: the two copies of SetTxTask (3 bytes, then size - 3 bytes) never
\* copy more than size bytes, for every size from 0 on (obs.tx_overread: a
\* memcpy of SetTxTask was asked for more bytes than size)
C40_TxCopiesSizeBytes == ~obs.tx_overread
====
